---- MODULE Spec2Model ----
(***************************************************************************)
(* State-machine model of the canvas engine of                             *)
(* src/src/components/traders/Whiteboard.tsx: the element store, the       *)
(* history (historyRef / historyIndexRef / redoStackRef), the pointer and  *)
(* keyboard handlers, the debounced persistence write, the load effect     *)
(* and the animation-frame redraw scheduler with the closures it captures. *)
(* Two smaller machines follow it: the stroke store, selection and         *)
(* two-stack history of src/src/components/planning/PlanningBoard.tsx, and *)
(* the timers of src/src/hooks/usePageTransition.ts as App.tsx drives them.*)
(*                                                                         *)
(* Conventions.  A JavaScript null / undefined is the empty sequence <<>>, *)
(* a present value v is <<v>>; element ids are natural numbers.  Colour    *)
(* and stroke size are carried through every operation                     *)
(* unchanged and are left out of the element records.  devicePixelRatio    *)
(* is 1 and the canvas rectangle starts at the client origin, so           *)
(* getPointerPos is the client position.  The scale of the transform is    *)
(* kept in thousandths (1000 is scale 1).                                  *)
(***************************************************************************)
EXTENDS Integers, Sequences, FiniteSets, TLC

\* ------------------------------------------------------------- bounds
\* History depth.  The source sets 50 (Whiteboard.tsx:202); the model runs
\* the same code with a small depth so that eviction and overflow happen.
MAX_HISTORY_STEPS == 3
\* historyRef may grow past MAX_HISTORY_STEPS (see handleRedo); redo is not
\* taken once it is this many entries above it.
MaxOverflow == 1
\* Most snapshots kept on redoStackRef.
MaxRedo == 1
\* Most elements ever created (ids 1..MaxIds).
MaxIds == 2
\* Most points of a pencil path.
MaxPoints == 2
\* Largest offset component of the transform, in steps of PanStep (the
\* offsets visited are 0..MaxPan * PanStep).
MaxPan == 1
\* Redraw requests counted between two frames; further ones are not told apart.
MaxRequests == 2

PanStep == 2
Grid == 2
\* Commits made beyond MAX_HISTORY_STEPS in the scenario of SpecScenario.
ExtraCommits == 1
\* Largest offset component, either sign, that a zoom may produce.
MaxZoomOffset == 20
\* Width of the board on which hits are tested (several hit thresholds).
HitSpan == 40

\* ------------------------------------------------------------- values
None == <<>>
Some(v) == <<v>>

Pt(px, py) == [x |-> px, y |-> py]

\* Client positions the pointer visits.
Positions == {Pt(0, 0), Pt(Grid, Grid)}

Tools == {"pen", "eraser", "pan", "line", "arrow", "rectangle", "circle", "text", "select"}
ShapeTools == {"line", "arrow", "rectangle", "circle"}

\* Text typed into the overlay: empty, blank, or one character.
Texts == {"", " ", "a"}

trim(s) == IF s = " " THEN "" ELSE s

StrLen(s) == IF s = "" THEN 0 ELSE 1

\* ------------------------------------------------------------- JSON
\* What localStorage holds under STORAGE_KEYS.WHITEBOARD: nothing, a string
\* that is not JSON, JSON that is not an array, or a stringified array.
Absent == [kind |-> "absent", elems |-> <<>>]
Unparsable == [kind |-> "unparsable", elems |-> <<>>]
NonArray == [kind |-> "nonarray", elems |-> <<>>]

JSONstringify(doc) == [kind |-> "array", elems |-> doc]

\* JSON.parse: throws on a string that is not JSON.
JSONparse(s) ==
  CASE s.kind = "array" -> [threw |-> FALSE, isArray |-> TRUE, value |-> s.elems]
    [] s.kind = "nonarray" -> [threw |-> FALSE, isArray |-> FALSE, value |-> <<>>]
    [] OTHER -> [threw |-> TRUE, isArray |-> FALSE, value |-> <<>>]

\* JSON.parse(JSON.stringify(doc)): the deep copy used for snapshots.
DeepClone(doc) == JSONparse(JSONstringify(doc)).value

\* ------------------------------------------------------------- geometry
Min(a, b) == IF a < b THEN a ELSE b
Max(a, b) == IF a > b THEN a ELSE b
Abs(a) == IF a < 0 THEN 0 - a ELSE a

\* (screen - offset) / scale, the scale in thousandths (exact at scale 1).
screenToWorld(screenX, screenY, scale, offset) ==
  Pt(((screenX - offset.x) * 1000) \div scale, ((screenY - offset.y) * 1000) \div scale)

worldToScreen(worldX, worldY, scale, offset) ==
  Pt((worldX * scale) \div 1000 + offset.x, (worldY * scale) \div 1000 + offset.y)

\* CanvasElement.  end is the optional (endX, endY), points the optional
\* path (a path that exists always has a point), text "" when absent.
PathElement(i, t, p) ==
  [id |-> i, type |-> t, x |-> p.x, y |-> p.y, end |-> None, points |-> <<p>>, text |-> ""]
ShapeElement(i, t, p) ==
  [id |-> i, type |-> t, x |-> p.x, y |-> p.y, end |-> Some(p), points |-> <<>>, text |-> ""]
TextElement(i, p, s) ==
  [id |-> i, type |-> "text", x |-> p.x, y |-> p.y, end |-> None, points |-> <<>>, text |-> s]

FontSize == 16

RECURSIVE PathMin(_, _, _)
PathMin(points, i, xAxis) ==
  LET v == IF xAxis THEN points[i].x ELSE points[i].y
  IN IF i = Len(points) THEN v ELSE Min(v, PathMin(points, i + 1, xAxis))

RECURSIVE PathMax(_, _, _)
PathMax(points, i, xAxis) ==
  LET v == IF xAxis THEN points[i].x ELSE points[i].y
  IN IF i = Len(points) THEN v ELSE Max(v, PathMax(points, i + 1, xAxis))

\* Bounding box, in tenths of a world unit (the text width is
\* length * fontSize * 0.6).
getElementBounds(element) ==
  IF element.type \in {"pencil", "eraser"} /\ Len(element.points) > 0
  THEN [minX |-> 10 * PathMin(element.points, 1, TRUE),
        minY |-> 10 * PathMin(element.points, 1, FALSE),
        maxX |-> 10 * PathMax(element.points, 1, TRUE),
        maxY |-> 10 * PathMax(element.points, 1, FALSE)]
  ELSE IF element.end # None
  THEN [minX |-> 10 * Min(element.x, element.end[1].x),
        minY |-> 10 * Min(element.y, element.end[1].y),
        maxX |-> 10 * Max(element.x, element.end[1].x),
        maxY |-> 10 * Max(element.y, element.end[1].y)]
  ELSE IF element.type = "text" /\ element.text # ""
  THEN [minX |-> 10 * element.x,
        minY |-> 10 * (element.y - FontSize),
        maxX |-> 10 * element.x + StrLen(element.text) * FontSize * 6,
        maxY |-> 10 * element.y]
  ELSE [minX |-> 10 * element.x, minY |-> 10 * element.y,
        maxX |-> 10 * element.x, maxY |-> 10 * element.y]

\* pointToLineDistance(p, a, b) <= t, compared without the square root:
\* with lenSq = |b - a|^2 and the projection parameter dot / lenSq clamped
\* to [0, 1], the squared distance times lenSq^2 against t^2 * lenSq^2.
pointToLineWithin(px, py, x1, y1, x2, y2, t) ==
  LET A == px - x1
      B == py - y1
      C == x2 - x1
      D == y2 - y1
      dot == A * C + B * D
      lenSq == C * C + D * D
  IN IF lenSq = 0 \/ dot < 0
     THEN A * A + B * B <= t * t
     ELSE IF dot > lenSq
     THEN (px - x2) * (px - x2) + (py - y2) * (py - y2) <= t * t
     ELSE (A * lenSq - dot * C) * (A * lenSq - dot * C)
            + (B * lenSq - dot * D) * (B * lenSq - dot * D) <= t * t * lenSq * lenSq

\* The type-specific test of getElementAtPosition.
DetailedHit(worldX, worldY, element, hitThreshold) ==
  LET bounds == getElementBounds(element)
      inBox == /\ 10 * worldX >= bounds.minX /\ 10 * worldX <= bounds.maxX
               /\ 10 * worldY >= bounds.minY /\ 10 * worldY <= bounds.maxY
  IN IF element.type \in {"pencil", "eraser"} /\ element.points # <<>>
     THEN \E k \in 1..Len(element.points) :
            (worldX - element.points[k].x) * (worldX - element.points[k].x)
              + (worldY - element.points[k].y) * (worldY - element.points[k].y)
              <= hitThreshold * hitThreshold
     ELSE IF element.type \in {"line", "arrow"} /\ element.end # None
     THEN pointToLineWithin(worldX, worldY, element.x, element.y,
                            element.end[1].x, element.end[1].y, hitThreshold)
     ELSE IF element.type = "rectangle" /\ element.end # None
     THEN inBox
     ELSE IF element.type = "circle" /\ element.end # None
     THEN LET cx2 == element.x + element.end[1].x
              cy2 == element.y + element.end[1].y
              r2 == Max(Abs(element.end[1].x - element.x), Abs(element.end[1].y - element.y))
              d2 == (2 * worldX - cx2) * (2 * worldX - cx2)
                      + (2 * worldY - cy2) * (2 * worldY - cy2)
              t2 == 2 * hitThreshold
          IN /\ d2 <= (r2 + t2) * (r2 + t2)
             /\ (r2 - t2 <= 0 \/ (r2 - t2) * (r2 - t2) <= d2)
     ELSE IF element.type = "text" /\ element.text # ""
     THEN inBox
     ELSE FALSE

\* The bounding-box rejection that precedes the detailed test.
CoarseReject(worldX, worldY, element, hitThreshold) ==
  LET bounds == getElementBounds(element)
  IN \/ 10 * worldX < bounds.minX - 10 * hitThreshold
     \/ 10 * worldX > bounds.maxX + 10 * hitThreshold
     \/ 10 * worldY < bounds.minY - 10 * hitThreshold
     \/ 10 * worldY > bounds.maxY + 10 * hitThreshold

\* Topmost element under the point, None when there is none.
RECURSIVE HitFrom(_, _, _, _, _)
HitFrom(worldX, worldY, elems, hitThreshold, i) ==
  IF i = 0 THEN None
  ELSE IF /\ ~CoarseReject(worldX, worldY, elems[i], hitThreshold)
          /\ DetailedHit(worldX, worldY, elems[i], hitThreshold)
  THEN Some(elems[i])
  ELSE HitFrom(worldX, worldY, elems, hitThreshold, i - 1)

getElementAtPosition(worldX, worldY, elems, hitThreshold) ==
  HitFrom(worldX, worldY, elems, hitThreshold, Len(elems))

\* elements.find(el => el.id === id): index of the first match, 0 if none.
RECURSIVE FindFrom(_, _, _)
FindFrom(elems, id, i) ==
  IF i > Len(elems) THEN 0
  ELSE IF elems[i].id = id THEN i
  ELSE FindFrom(elems, id, i + 1)

FindIndex(elems, id) == FindFrom(elems, id, 1)

\* elements.filter(el => el.id !== id)
RECURSIVE FilterOut(_, _)
FilterOut(elems, id) ==
  IF elems = <<>> THEN <<>>
  ELSE IF Head(elems).id = id THEN FilterOut(Tail(elems), id)
  ELSE <<Head(elems)>> \o FilterOut(Tail(elems), id)

\* ------------------------------------------------------------- state
VARIABLES
  phase,                    \* "init" before mount, "mounted", "unmounted"; "crashed": an effect threw
  storage,                  \* localStorage[STORAGE_KEYS.WHITEBOARD]
  elementsRef,              \* the document
  historyRef,               \* list of snapshots
  historyIndexRef,
  redoStackRef,
  nextId,                   \* the id the next committed element gets
  tool,
  showGrid,
  selectedElementId,        \* None or Some(id)
  textInputState,           \* None or Some(world point of the overlay)
  currentElementRef,        \* None or Some(element in progress)
  isDrawingRef,
  isPanningRef,
  isDraggingRef,
  dragStartPosRef,
  dragElementStartPosRef,
  lastMousePosRef,
  transform,                \* the prop owned by the parent (Traders)
  dataLoadedRef,
  saveTimeoutRef,           \* 0 is null; the id of a timer that has fired stays in it
  timers,                   \* ids of the timeouts of debouncedSave that have not fired yet
  rafQueue,                 \* callbacks the browser runs at the next frame
  staticRedrawRequestRef,   \* 0 is null
  activeRedrawRequestRef,
  isStaticScheduledRef,
  isActiveScheduledRef,
  staticShown,              \* None (blank) or Some(what the static canvas shows)
  activeShown,
  \* history variables of the verification, never read by the handlers
  pointerIsDown,            \* environment: the one pointer is pressed on the canvas
  pointerPos,               \* environment: where it is while pressed
  dirty,                    \* a mutating operation ran and no write followed it
  requested,                \* per surface: redraw requests since the last frame (up to MaxRequests)
  frameLog,                 \* after a frame, per surface: requests before it, redraws in it
  lateInstall,              \* the load effect replaced the document after a commit
  committed,                \* the user has committed a mutation
  run,                      \* the commits, undos and redos in progress (see NoRun)
  dragOrigin,               \* None, or Some(the document when the drag in progress began)
  \* components/planning/PlanningBoard.tsx
  planningBoard,            \* its refs and its tool, one field each
  planningGhost,            \* history variables of the verification for it
  \* hooks/usePageTransition.ts as App.tsx uses it
  pageTransition,           \* the state and the refs of the hook, and the pending timeouts
  currentTab,               \* App: the tab shown
  tabFrames,                \* App: the tabs that pending animation-frame callbacks will show
  pageGhost                 \* history variables of the verification for the hook

histVars == <<elementsRef, historyRef, historyIndexRef, redoStackRef, nextId>>
toolVars == <<tool, selectedElementId, textInputState>>
pointerVars == <<currentElementRef, isDrawingRef, isPanningRef, isDraggingRef,
                 dragStartPosRef, dragElementStartPosRef, lastMousePosRef>>
viewVars == <<transform, showGrid>>
persistVars == <<storage, dataLoadedRef, saveTimeoutRef, timers>>
rafVars == <<rafQueue, staticRedrawRequestRef, activeRedrawRequestRef,
             isStaticScheduledRef, isActiveScheduledRef, requested>>
shownVars == <<staticShown, activeShown>>
ghostVars == <<dirty, lateInstall, committed, run, dragOrigin>>

\* The Whiteboard of traders/ on one side, the PlanningBoard and the page
\* transition on the other: the handlers of one leave the others alone.
whiteboardVars == <<phase, histVars, toolVars, pointerVars, pointerIsDown, pointerPos, viewVars,
                    persistVars, rafVars, shownVars, frameLog, ghostVars>>
boardVars == <<planningBoard, planningGhost>>
pageVars == <<pageTransition, currentTab, tabFrames, pageGhost>>
otherVars == <<boardVars, pageVars>>

vars == <<whiteboardVars, otherVars>>

IdentityTransform == [scale |-> 1000, offset |-> Pt(0, 0)]

\* ------------------------------------------------------------- observed runs
\* run records the documents of the commits made one after the other with
\* no other change of the document or the history in between (docs, the
\* first being the document before the first of them), then the number of
\* handleUndo calls that followed them, then the number of handleRedo calls
\* that followed those.  NoRun: nothing of that shape is in progress.
NoRun == [docs |-> <<>>, undos |-> 0, redos |-> 0]

\* After a commit that took the document from before to after.
RunAfterCommit(before, after) ==
  IF before = after THEN NoRun
  ELSE IF run.docs # <<>> /\ run.undos = 0
  THEN [run EXCEPT !.docs = Append(@, after)]
  ELSE [docs |-> <<before, after>>, undos |-> 0, redos |-> 0]

RunAfterUndo ==
  IF run.docs # <<>> /\ run.redos = 0 /\ run.undos < Len(run.docs) - 1
  THEN [run EXCEPT !.undos = @ + 1]
  ELSE NoRun

RunAfterRedo ==
  IF run.docs # <<>> /\ run.undos >= 1 /\ run.redos < run.undos
  THEN [run EXCEPT !.redos = @ + 1]
  ELSE NoRun

\* ------------------------------------------------------------- redraw scheduler
\* The refs of the scheduler, bundled so that a handler can thread them
\* through the calls it makes.
Raf == [queue |-> rafQueue,
        staticRedrawRequestRef |-> staticRedrawRequestRef,
        activeRedrawRequestRef |-> activeRedrawRequestRef,
        isStaticScheduledRef |-> isStaticScheduledRef,
        isActiveScheduledRef |-> isActiveScheduledRef,
        requested |-> requested]

SetRaf(R) ==
  /\ rafQueue' = R.queue
  /\ staticRedrawRequestRef' = R.staticRedrawRequestRef
  /\ activeRedrawRequestRef' = R.activeRedrawRequestRef
  /\ isStaticScheduledRef' = R.isStaticScheduledRef
  /\ isActiveScheduledRef' = R.isActiveScheduledRef
  /\ requested' = R.requested

\* requestAnimationFrame returns a handle no pending callback has.
FreshHandle(queue) ==
  CHOOSE h \in 1..(Len(queue) + 1) : \A k \in 1..Len(queue) : queue[k].handle # h

\* cancelAnimationFrame(handle)
RECURSIVE cancelAnimationFrame(_, _)
cancelAnimationFrame(queue, handle) ==
  IF queue = <<>> THEN <<>>
  ELSE IF Head(queue).handle = handle THEN cancelAnimationFrame(Tail(queue), handle)
  ELSE <<Head(queue)>> \o cancelAnimationFrame(Tail(queue), handle)

\* A scheduler that neither tests isStaticScheduledRef nor cancels the
\* request it already holds: every call queues one more callback.
scheduleStaticRedrawUnguarded(R, tr, grid) ==
  LET h == FreshHandle(R.queue)
  IN [R EXCEPT
        !.requested.static = Min(@ + 1, MaxRequests),
        !.isStaticScheduledRef = TRUE,
        !.staticRedrawRequestRef = h,
        !.queue = Append(@, [handle |-> h, surface |-> "static", transform |-> tr,
                             showGrid |-> grid, selectedElementId |-> None])]

\* scheduleStaticRedraw of the render whose transform is tr and showGrid is
\* grid: the callback it queues calls that render's redrawStatic.
scheduleStaticRedraw(R, tr, grid) ==
  LET counted == [R EXCEPT !.requested.static = Min(@ + 1, MaxRequests)]
  IN IF ~R.isStaticScheduledRef
     THEN LET q == IF R.staticRedrawRequestRef # 0
                   THEN cancelAnimationFrame(R.queue, R.staticRedrawRequestRef)
                   ELSE R.queue
              h == FreshHandle(q)
          IN [counted EXCEPT
                !.isStaticScheduledRef = TRUE,
                !.staticRedrawRequestRef = h,
                !.queue = Append(q, [handle |-> h, surface |-> "static", transform |-> tr,
                                     showGrid |-> grid, selectedElementId |-> None])]
     ELSE counted

\* scheduleActiveRedraw of the render whose transform is tr and selected
\* element id is sel: the callback it queues calls that render's redrawActive.
scheduleActiveRedraw(R, tr, sel) ==
  LET counted == [R EXCEPT !.requested.active = Min(@ + 1, MaxRequests)]
  IN IF ~R.isActiveScheduledRef
     THEN LET q == IF R.activeRedrawRequestRef # 0
                   THEN cancelAnimationFrame(R.queue, R.activeRedrawRequestRef)
                   ELSE R.queue
              h == FreshHandle(q)
          IN [counted EXCEPT
                !.isActiveScheduledRef = TRUE,
                !.activeRedrawRequestRef = h,
                !.queue = Append(q, [handle |-> h, surface |-> "active", transform |-> tr,
                                     showGrid |-> FALSE, selectedElementId |-> sel])]
     ELSE counted

\* ------------------------------------------------------------- save timer
\* The ref and the pending timeouts of debouncedSave, bundled.
Timer == [saveTimeoutRef |-> saveTimeoutRef, timers |-> timers]

SetTimer(T) ==
  /\ saveTimeoutRef' = T.saveTimeoutRef
  /\ timers' = T.timers

saveTimerPending == timers # {}

\* setTimeout returns an id no pending timeout has.
FreshTimer(pending) ==
  CHOOSE h \in 1..(Cardinality(pending) + 1) : h \notin pending

clearTimeout(pending, h) == pending \ {h}

\* A debouncedSave that leaves the timeout it already holds running.
debouncedSaveNoClear(T) ==
  LET h == FreshTimer(T.timers)
  IN [saveTimeoutRef |-> h, timers |-> T.timers \cup {h}]

\* debouncedSave(): the timeout held by saveTimeoutRef is cleared (clearing
\* one that has fired does nothing) and a new one takes its place.
debouncedSave(T) ==
  LET h == FreshTimer(T.timers)
      cleared == IF T.saveTimeoutRef # 0 THEN clearTimeout(T.timers, T.saveTimeoutRef)
                 ELSE T.timers
  IN [saveTimeoutRef |-> h, timers |-> cleared \cup {h}]

\* ------------------------------------------------------------- history
History == [historyRef |-> historyRef, historyIndexRef |-> historyIndexRef,
            redoStackRef |-> redoStackRef]

SetHistory(H) ==
  /\ historyRef' = H.historyRef
  /\ historyIndexRef' = H.historyIndexRef
  /\ redoStackRef' = H.redoStackRef

\* A saveToHistory that never drops the oldest snapshot.
saveToHistoryNoLimit(H, doc) ==
  LET kept == IF H.historyIndexRef < Len(H.historyRef)
              THEN SubSeq(H.historyRef, 1, H.historyIndexRef)
              ELSE H.historyRef
      pushed == Append(kept, DeepClone(doc))
  IN [historyRef |-> pushed, historyIndexRef |-> Len(pushed), redoStackRef |-> <<>>]

\* saveToHistory() with the document doc
saveToHistory(H, doc) ==
  LET snapshot == DeepClone(doc)
      kept == IF H.historyIndexRef < Len(H.historyRef)
              THEN SubSeq(H.historyRef, 1, H.historyIndexRef)
              ELSE H.historyRef
      pushed == Append(kept, snapshot)
  IN IF Len(pushed) > MAX_HISTORY_STEPS
     THEN [historyRef |-> Tail(pushed), historyIndexRef |-> Len(pushed) - 1,
           redoStackRef |-> <<>>]
     ELSE [historyRef |-> pushed, historyIndexRef |-> Len(pushed), redoStackRef |-> <<>>]

\* handleUndo(): the history after it, the document after it, and whether
\* it reached debouncedSave() and scheduleStaticRedraw().
handleUndo(H, doc) ==
  IF H.historyIndexRef > 0
  THEN LET index == H.historyIndexRef - 1
           H1 == [H EXCEPT !.redoStackRef = Append(@, DeepClone(doc)),
                           !.historyIndexRef = index]
           \* historyRef.current[index - 1], undefined outside the array
           found == index - 1 >= 0 /\ index - 1 < Len(H.historyRef)
       IN IF found
          THEN [history |-> H1, elements |-> DeepClone(H.historyRef[index]), restored |-> TRUE]
          ELSE [history |-> H1, elements |-> doc, restored |-> FALSE]
  ELSE [history |-> H, elements |-> doc, restored |-> FALSE]

\* handleRedo()
handleRedo(H, doc) ==
  IF Len(H.redoStackRef) > 0
  THEN LET nextSnapshot == H.redoStackRef[Len(H.redoStackRef)]
           pushed == Append(H.historyRef, DeepClone(nextSnapshot))
       IN [history |-> [historyRef |-> pushed, historyIndexRef |-> Len(pushed),
                        redoStackRef |-> SubSeq(H.redoStackRef, 1, Len(H.redoStackRef) - 1)],
           elements |-> DeepClone(nextSnapshot), restored |-> TRUE]
  ELSE [history |-> H, elements |-> doc, restored |-> FALSE]

\* ------------------------------------------------------------- load effect
\* A load effect without the try / catch: the error of JSON.parse leaves it.
LoadEffectNoCatch(stored, loaded, doc, R, tr, grid) ==
  IF loaded \/ stored.kind = "absent"
  THEN [elements |-> doc, dataLoadedRef |-> TRUE, raf |-> R, installed |-> FALSE,
        escaped |-> FALSE]
  ELSE LET parsed == JSONparse(stored)
       IN IF parsed.threw
          THEN [elements |-> doc, dataLoadedRef |-> FALSE, raf |-> R, installed |-> FALSE,
                escaped |-> TRUE]
          ELSE IF parsed.isArray
          THEN [elements |-> parsed.value, dataLoadedRef |-> TRUE,
                raf |-> scheduleStaticRedraw(R, tr, grid), installed |-> TRUE,
                escaped |-> FALSE]
          ELSE [elements |-> doc, dataLoadedRef |-> FALSE, raf |-> R, installed |-> FALSE,
                escaped |-> FALSE]

\* The effect of lines 606-625, run at mount and again whenever
\* scheduleStaticRedraw is a new function (the transform or showGrid of the
\* render changed).  escaped: an error left the effect (the try / catch of
\* lines 608-623 lets none out).
LoadEffect(stored, loaded, doc, R, tr, grid) ==
  IF loaded
  THEN [elements |-> doc, dataLoadedRef |-> TRUE, raf |-> R, installed |-> FALSE,
        escaped |-> FALSE]
  ELSE IF stored.kind = "absent"
  THEN [elements |-> doc, dataLoadedRef |-> TRUE, raf |-> R, installed |-> FALSE,
        escaped |-> FALSE]
  ELSE LET parsed == JSONparse(stored)
       IN IF parsed.threw
          THEN [elements |-> doc, dataLoadedRef |-> TRUE, raf |-> R, installed |-> FALSE,
                escaped |-> FALSE]
          ELSE IF parsed.isArray
          THEN [elements |-> parsed.value, dataLoadedRef |-> TRUE,
                raf |-> scheduleStaticRedraw(R, tr, grid), installed |-> TRUE,
                escaped |-> FALSE]
          ELSE [elements |-> doc, dataLoadedRef |-> FALSE, raf |-> R, installed |-> FALSE,
                escaped |-> FALSE]

\* The effects that depend on scheduleStaticRedraw, in source order, after a
\* render with the transform tr and the grid flag grid: the resize effect
\* (handleResize sets the canvas sizes, which blanks both canvases, and
\* schedules a static redraw), the load effect, the transform effect.
RenderEffects(stored, loaded, doc, R, tr, grid) ==
  LET afterResize == scheduleStaticRedraw(R, tr, grid)
      load == LoadEffect(stored, loaded, doc, afterResize, tr, grid)
  IN [load EXCEPT !.raf = scheduleStaticRedraw(load.raf, tr, grid)]

\* ------------------------------------------------------------- initial state
\* A document an earlier session may have stored.
StoredDocument == <<TextElement(0, Pt(0, 0), "a")>>

InitialStorage == {Absent, Unparsable, NonArray, JSONstringify(<<>>), JSONstringify(StoredDocument)}

NoDragStart == [x |-> 0, y |-> 0, end |-> None, points |-> <<>>]

NoFrame == [static |-> [requested |-> 0, draws |-> 0],
            active |-> [requested |-> 0, draws |-> 0]]

\* Every handler but the frame forgets the log of the last frame.
NotAFrame == frameLog' = NoFrame

\* ------------------------------------------------------------- PlanningBoard, page transition: initial values
\* PlanningBoard.tsx lines 66-70, 74, 119-124.
InitialBoard ==
  [tool |-> "pen",
   strokesRef |-> <<>>,
   currentStrokeRef |-> None,
   historyRef |-> <<>>,
   redoHistoryRef |-> <<>>,
   isDrawingRef |-> FALSE,
   isPanningRef |-> FALSE,
   isSelectingRef |-> FALSE,
   selectionStartRef |-> None,
   selectionEndRef |-> None,
   selectedStrokesRef |-> {}]

\* No undo, redo or selection has been observed yet (see the PlanningBoard
\* section for the fields).
NoBoardRun == [final |-> None, undos |-> 0, redos |-> 0]

InitialBoardGhost ==
  [pointerIsDown |-> FALSE,
   undoable |-> <<>>,
   beforeUndo |-> None,
   run |-> NoBoardRun,
   picked |-> {}]

\* usePageTransition.ts lines 18-21; a null ref is 0, timeout ids start at 1.
InitialTransition ==
  [transitionState |-> "idle",
   isBlurActive |-> FALSE,
   timeoutRef |-> 0,
   blurTimeoutRef |-> 0,
   pending |-> {},
   nextTimeout |-> 1]

Init ==
  /\ phase = "init"
  /\ storage \in InitialStorage
  /\ elementsRef = <<>>
  /\ historyRef = <<>>
  /\ historyIndexRef = 0
  /\ redoStackRef = <<>>
  /\ nextId = 1
  /\ tool = "pen"
  /\ showGrid = FALSE
  /\ selectedElementId = None
  /\ textInputState = None
  /\ currentElementRef = None
  /\ isDrawingRef = FALSE
  /\ isPanningRef = FALSE
  /\ isDraggingRef = FALSE
  /\ dragStartPosRef = Pt(0, 0)
  /\ dragElementStartPosRef = NoDragStart
  /\ lastMousePosRef = Pt(0, 0)
  /\ transform = IdentityTransform
  /\ dataLoadedRef = FALSE
  /\ saveTimeoutRef = 0
  /\ timers = {}
  /\ rafQueue = <<>>
  /\ staticRedrawRequestRef = 0
  /\ activeRedrawRequestRef = 0
  /\ isStaticScheduledRef = FALSE
  /\ isActiveScheduledRef = FALSE
  /\ staticShown = None
  /\ activeShown = None
  /\ pointerIsDown = FALSE
  /\ pointerPos = Pt(0, 0)
  /\ dirty = FALSE
  /\ requested = [static |-> 0, active |-> 0]
  /\ frameLog = NoFrame
  /\ lateInstall = FALSE
  /\ committed = FALSE
  /\ run = NoRun
  /\ dragOrigin = None
  /\ planningBoard = InitialBoard
  /\ planningGhost = InitialBoardGhost
  /\ pageTransition = InitialTransition
  /\ currentTab = "dashboard"
  /\ tabFrames = <<>>
  /\ pageGhost = [calls |-> 0, ends |-> 0]

\* ------------------------------------------------------------- mount, unmount
\* The effects of the first render, in source order: history initialisation
\* (lines 209-215, before the load effect), then the resize, load and
\* transform effects.
Mount ==
  /\ UNCHANGED otherVars
  /\ phase = "init"
  /\ LET RE == RenderEffects(storage, dataLoadedRef, elementsRef, Raf, transform, showGrid)
     IN /\ historyRef' = <<DeepClone(elementsRef)>>
        /\ historyIndexRef' = 1
        /\ elementsRef' = RE.elements
        /\ dataLoadedRef' = RE.dataLoadedRef
        /\ SetRaf(RE.raf)
  /\ phase' = IF RenderEffects(storage, dataLoadedRef, elementsRef, Raf, transform,
                              showGrid).escaped
               THEN "crashed" ELSE "mounted"
  /\ NotAFrame
  /\ UNCHANGED <<redoStackRef, nextId, toolVars, pointerVars, viewVars, storage,
                 saveTimeoutRef, timers, shownVars, ghostVars>>
  /\ UNCHANGED <<pointerIsDown, pointerPos>>

\* The cleanup of lines 256-262 clears the save timer; pending animation
\* frames are not cancelled.
Unmount ==
  /\ UNCHANGED otherVars
  /\ phase = "mounted"
  /\ phase' = "unmounted"
  /\ timers' = IF saveTimeoutRef # 0 THEN clearTimeout(timers, saveTimeoutRef) ELSE timers
  /\ UNCHANGED saveTimeoutRef
  /\ NotAFrame
  /\ UNCHANGED <<histVars, toolVars, pointerVars, viewVars, storage, dataLoadedRef,
                 rafVars, shownVars, ghostVars>>
  /\ UNCHANGED <<pointerIsDown, pointerPos>>

\* ------------------------------------------------------------- timers, frames
\* The timeout of debouncedSave fires: it writes the document as it is now.
SaveTimerFire ==
  /\ UNCHANGED otherVars
  /\ phase = "mounted"
  /\ \E h \in timers : timers' = timers \ {h}
  /\ storage' = JSONstringify(elementsRef)
  /\ UNCHANGED saveTimeoutRef
  /\ dirty' = FALSE
  /\ NotAFrame
  /\ UNCHANGED <<phase, histVars, toolVars, pointerVars, viewVars, dataLoadedRef, rafVars,
                 shownVars, lateInstall, committed, run, dragOrigin>>
  /\ UNCHANGED <<pointerIsDown, pointerPos>>

\* One animation-frame callback: redraw with the closure it captured (a
\* redraw returns early when the canvas is gone), then clear the flag and
\* the handle of its surface.
RunCallback(cb, F) ==
  IF cb.surface = "static"
  THEN [F EXCEPT
          !.staticShown = IF phase = "mounted"
                          THEN Some([transform |-> cb.transform, showGrid |-> cb.showGrid])
                          ELSE @,
          !.isStaticScheduledRef = FALSE,
          !.staticRedrawRequestRef = 0,
          !.draws.static = @ + 1]
  ELSE [F EXCEPT
          !.activeShown = IF phase = "mounted"
                          THEN Some([transform |-> cb.transform,
                                     selectedElementId |-> cb.selectedElementId])
                          ELSE @,
          !.isActiveScheduledRef = FALSE,
          !.activeRedrawRequestRef = 0,
          !.draws.active = @ + 1]

RECURSIVE RunCallbacks(_, _)
RunCallbacks(queue, F) ==
  IF queue = <<>> THEN F ELSE RunCallbacks(Tail(queue), RunCallback(Head(queue), F))

\* The browser runs every pending animation-frame callback.
Frame ==
  /\ UNCHANGED otherVars
  /\ rafQueue # <<>>
  /\ LET F == RunCallbacks(rafQueue,
                [staticShown |-> staticShown, activeShown |-> activeShown,
                 isStaticScheduledRef |-> isStaticScheduledRef,
                 isActiveScheduledRef |-> isActiveScheduledRef,
                 staticRedrawRequestRef |-> staticRedrawRequestRef,
                 activeRedrawRequestRef |-> activeRedrawRequestRef,
                 draws |-> [static |-> 0, active |-> 0]])
     IN /\ staticShown' = F.staticShown
        /\ activeShown' = F.activeShown
        /\ isStaticScheduledRef' = F.isStaticScheduledRef
        /\ isActiveScheduledRef' = F.isActiveScheduledRef
        /\ staticRedrawRequestRef' = F.staticRedrawRequestRef
        /\ activeRedrawRequestRef' = F.activeRedrawRequestRef
        /\ frameLog' = [static |-> [requested |-> requested.static, draws |-> F.draws.static],
                        active |-> [requested |-> requested.active, draws |-> F.draws.active]]
  /\ rafQueue' = <<>>
  /\ requested' = [static |-> 0, active |-> 0]
  /\ UNCHANGED <<phase, histVars, toolVars, pointerVars, viewVars, persistVars,
                 ghostVars>>
  /\ UNCHANGED <<pointerIsDown, pointerPos>>

\* ------------------------------------------------------------- view changes
\* A render with a new transform or grid flag, and the effects it re-runs.
ViewChange(newTransform, newGrid) ==
  LET RE == RenderEffects(storage, dataLoadedRef, elementsRef, Raf, newTransform, newGrid)
  IN /\ transform' = newTransform
     /\ showGrid' = newGrid
     /\ elementsRef' = RE.elements
     /\ dataLoadedRef' = RE.dataLoadedRef
     /\ SetRaf(RE.raf)
     /\ staticShown' = None
     /\ activeShown' = None
     /\ lateInstall' = (lateInstall \/ (RE.installed /\ committed /\ RE.elements # elementsRef))
     /\ run' = IF RE.elements # elementsRef THEN NoRun ELSE run
     /\ dragOrigin' = IF RE.elements # elementsRef THEN None ELSE dragOrigin

InPanRange(offset) ==
  /\ offset.x \in 0..(MaxPan * PanStep)
  /\ offset.y \in 0..(MaxPan * PanStep)

WheelDeltas == {Pt(PanStep, PanStep), Pt(0 - PanStep, 0 - PanStep)}

\* handleWheel without the Ctrl key: a pan by the wheel delta.
WheelPan(delta) ==
  /\ UNCHANGED otherVars
  /\ phase = "mounted"
  /\ LET newOffset == Pt(transform.offset.x - delta.x, transform.offset.y - delta.y)
     IN /\ InPanRange(newOffset)
        /\ ViewChange([scale |-> transform.scale, offset |-> newOffset], showGrid)
  /\ NotAFrame
  /\ UNCHANGED <<phase, historyRef, historyIndexRef, redoStackRef, nextId, toolVars,
                 pointerVars, storage, saveTimeoutRef, timers, dirty, committed>>
  /\ UNCHANGED <<pointerIsDown, pointerPos>>

\* The clamp of the scale (Math.min(Math.max(0.1, ...), 10)), in thousandths.
MinScale == 100
MaxScale == 10000

\* deltaY of the wheel events that zoom.
ZoomDeltas == {6000, 0 - 6000}

\* A zoom that clamps the scale after the offset was computed from the
\* scale before the clamp.
handleWheelZoomLateClamp(tr, s, deltaY) ==
  LET rawScale == tr.scale - deltaY
  IN [scale |-> Min(Max(MinScale, rawScale), MaxScale),
      offsetNum |-> Pt(s.x * tr.scale - (s.x - tr.offset.x) * rawScale,
                       s.y * tr.scale - (s.y - tr.offset.y) * rawScale),
      offsetDen |-> tr.scale]

\* A zoom that does not clamp the scale.
handleWheelZoomNoClamp(tr, s, deltaY) ==
  LET rawScale == tr.scale - deltaY
  IN [scale |-> rawScale,
      offsetNum |-> Pt(s.x * tr.scale - (s.x - tr.offset.x) * rawScale,
                       s.y * tr.scale - (s.y - tr.offset.y) * rawScale),
      offsetDen |-> tr.scale]

\* handleWheel with the Ctrl key, the pointer at the canvas position s: the
\* new scale (delta = -deltaY * 0.001 is -deltaY thousandths) and the new
\* offset canvasX - worldX * newScale with worldX = (canvasX - offset.x) / scale,
\* kept exact as the fraction offsetNum / offsetDen.
handleWheelZoom(tr, s, deltaY) ==
  LET newScale == Min(Max(MinScale, tr.scale - deltaY), MaxScale)
  IN [scale |-> newScale,
      offsetNum |-> Pt(s.x * tr.scale - (s.x - tr.offset.x) * newScale,
                       s.y * tr.scale - (s.y - tr.offset.y) * newScale),
      offsetDen |-> tr.scale]

InZoomRange(offset) ==
  /\ offset.x \in (0 - MaxZoomOffset)..MaxZoomOffset
  /\ offset.y \in (0 - MaxZoomOffset)..MaxZoomOffset

\* The zooms taken are those whose new offset is a whole number.
WheelZoom(s, deltaY) ==
  /\ UNCHANGED otherVars
  /\ phase = "mounted"
  /\ LET z == handleWheelZoom(transform, s, deltaY)
     IN /\ z.offsetNum.x % z.offsetDen = 0
        /\ z.offsetNum.y % z.offsetDen = 0
        /\ LET newOffset == Pt(z.offsetNum.x \div z.offsetDen, z.offsetNum.y \div z.offsetDen)
           IN /\ InZoomRange(newOffset)
              /\ ViewChange([scale |-> z.scale, offset |-> newOffset], showGrid)
  /\ NotAFrame
  /\ UNCHANGED <<phase, historyRef, historyIndexRef, redoStackRef, nextId, toolVars,
                 pointerVars, storage, saveTimeoutRef, timers, dirty, committed>>
  /\ UNCHANGED <<pointerIsDown, pointerPos>>

ResetView ==
  /\ UNCHANGED otherVars
  /\ phase = "mounted"
  /\ ~pointerIsDown /\ textInputState = None
  /\ ViewChange(IdentityTransform, showGrid)
  /\ NotAFrame
  /\ UNCHANGED <<phase, historyRef, historyIndexRef, redoStackRef, nextId, toolVars,
                 pointerVars, storage, saveTimeoutRef, timers, dirty, committed>>
  /\ UNCHANGED <<pointerIsDown, pointerPos>>

ToggleGrid ==
  /\ UNCHANGED otherVars
  /\ phase = "mounted"
  /\ ~pointerIsDown /\ textInputState = None
  /\ ViewChange(transform, ~showGrid)
  /\ NotAFrame
  /\ UNCHANGED <<phase, historyRef, historyIndexRef, redoStackRef, nextId, toolVars,
                 pointerVars, storage, saveTimeoutRef, timers, dirty, committed>>
  /\ UNCHANGED <<pointerIsDown, pointerPos>>

SetTool(t) ==
  /\ UNCHANGED otherVars
  /\ phase = "mounted"
  /\ ~pointerIsDown /\ textInputState = None
  /\ tool # t
  /\ tool' = t
  /\ NotAFrame
  /\ UNCHANGED <<phase, histVars, selectedElementId, textInputState, pointerVars, viewVars,
                 persistVars, rafVars, shownVars, ghostVars>>
  /\ UNCHANGED <<pointerIsDown, pointerPos>>

\* ------------------------------------------------------------- pointer handlers
DrawTools == {"pen", "eraser"} \cup ShapeTools

\* World coordinates a dragged element may take.
InWorld(p) == p.x \in 0..Grid /\ p.y \in 0..Grid

Shift(p, dx, dy) == Pt(p.x + dx, p.y + dy)

ShiftAll(points, dx, dy) == [k \in 1..Len(points) |-> Shift(points[k], dx, dy)]

\* handleStart.  panClick: the middle button or a shift-click.  The pointer
\* is pressed on the canvas while the text overlay is closed.
PointerDown(pos, panClick) ==
  /\ UNCHANGED otherVars
  /\ phase = "mounted"
  /\ ~pointerIsDown
  /\ textInputState = None
  /\ (tool \in DrawTools /\ ~panClick) => nextId <= MaxIds
  /\ LET worldPos == screenToWorld(pos.x, pos.y, transform.scale, transform.offset)
         hitElement == IF tool = "select"
                       THEN getElementAtPosition(worldPos.x, worldPos.y, elementsRef,
                                                 5000 \div transform.scale)
                       ELSE None
     IN IF tool = "pan" \/ panClick
        THEN /\ isPanningRef' = TRUE
             /\ lastMousePosRef' = pos
             /\ UNCHANGED <<toolVars, currentElementRef, isDrawingRef, isDraggingRef,
                            dragStartPosRef, dragElementStartPosRef, rafVars, dragOrigin>>
        ELSE IF tool = "select" /\ hitElement # None
        THEN LET element == elementsRef[FindIndex(elementsRef, hitElement[1].id)]
             IN /\ selectedElementId' = Some(hitElement[1].id)
                /\ isDraggingRef' = TRUE
                /\ dragStartPosRef' = worldPos
                /\ dragElementStartPosRef' = [x |-> element.x, y |-> element.y,
                                              end |-> element.end, points |-> element.points]
                /\ SetRaf(scheduleActiveRedraw(Raf, transform, selectedElementId))
                /\ dragOrigin' = Some(elementsRef)
                /\ UNCHANGED <<tool, textInputState, currentElementRef, isDrawingRef,
                               isPanningRef, lastMousePosRef>>
        ELSE IF tool = "text"
        THEN /\ textInputState' = Some(worldPos)
             /\ UNCHANGED <<tool, selectedElementId, pointerVars, rafVars, dragOrigin>>
        ELSE /\ selectedElementId' = IF tool = "select" THEN None ELSE selectedElementId
             /\ isDrawingRef' = TRUE
             /\ currentElementRef' =
                  IF tool \in {"pen", "eraser"}
                  THEN Some(PathElement(nextId, IF tool = "eraser" THEN "eraser" ELSE "pencil",
                                        worldPos))
                  ELSE IF tool \in ShapeTools
                  THEN Some(ShapeElement(nextId, tool, worldPos))
                  ELSE currentElementRef
             /\ SetRaf(scheduleActiveRedraw(Raf, transform, selectedElementId))
             /\ UNCHANGED <<tool, textInputState, isPanningRef, isDraggingRef,
                            dragStartPosRef, dragElementStartPosRef, lastMousePosRef,
                            dragOrigin>>
  /\ NotAFrame
  /\ UNCHANGED <<phase, histVars, viewVars, persistVars, shownVars, dirty,
                 lateInstall, committed, run>>
  /\ pointerIsDown' = TRUE
  /\ pointerPos' = pos

\* handleMove while panning: the offset follows the pointer.
PointerMovePan(pos) ==
  /\ UNCHANGED otherVars
  /\ phase = "mounted"
  /\ pointerIsDown /\ pos # pointerPos
  /\ isPanningRef
  /\ LET dx == pos.x - lastMousePosRef.x
         dy == pos.y - lastMousePosRef.y
         newOffset == Pt(transform.offset.x + dx, transform.offset.y + dy)
     IN /\ InPanRange(newOffset)
        /\ ViewChange([scale |-> transform.scale, offset |-> newOffset], showGrid)
  /\ lastMousePosRef' = pos
  /\ NotAFrame
  /\ UNCHANGED <<phase, historyRef, historyIndexRef, redoStackRef, nextId, toolVars,
                 currentElementRef, isDrawingRef, isPanningRef, isDraggingRef,
                 dragStartPosRef, dragElementStartPosRef, storage, saveTimeoutRef, timers,
                 dirty, committed>>
  /\ pointerPos' = pos
  /\ UNCHANGED pointerIsDown

\* A drag that adds the translation to the element's geometry of the moment.
DraggedAccumulating(element, start, dx, dy) ==
  [element EXCEPT
     !.x = @ + dx,
     !.y = @ + dy,
     !.end = IF element.end # None THEN Some(Shift(@[1], dx, dy)) ELSE @,
     !.points = IF element.points # <<>> /\ start.points # <<>>
                THEN ShiftAll(@, dx, dy) ELSE @]

\* The element of a drag: the geometry captured at pointer-down, translated.
Dragged(element, start, dx, dy) ==
  [element EXCEPT
     !.x = start.x + dx,
     !.y = start.y + dy,
     !.end = IF element.end # None THEN Some(Shift(start.end[1], dx, dy)) ELSE @,
     !.points = IF element.points # <<>> /\ start.points # <<>>
                THEN ShiftAll(start.points, dx, dy) ELSE @]

ElementInWorld(element) ==
  /\ InWorld(Pt(element.x, element.y))
  /\ element.end # None => InWorld(element.end[1])
  /\ \A k \in 1..Len(element.points) : InWorld(element.points[k])

\* handleMove while dragging the selected element: it is changed in place,
\* inside the document.
PointerMoveDrag(pos) ==
  /\ UNCHANGED otherVars
  /\ phase = "mounted"
  /\ pointerIsDown /\ pos # pointerPos
  /\ ~isPanningRef
  /\ isDraggingRef /\ selectedElementId # None
  /\ LET worldPos == screenToWorld(pos.x, pos.y, transform.scale, transform.offset)
         deltaX == worldPos.x - dragStartPosRef.x
         deltaY == worldPos.y - dragStartPosRef.y
         i == FindIndex(elementsRef, selectedElementId[1])
     IN IF i # 0
        THEN LET moved == Dragged(elementsRef[i], dragElementStartPosRef, deltaX, deltaY)
             IN /\ ElementInWorld(moved)
                /\ elementsRef' = [elementsRef EXCEPT ![i] = moved]
                /\ SetRaf(scheduleActiveRedraw(
                            scheduleStaticRedraw(Raf, transform, showGrid),
                            transform, selectedElementId))
        ELSE UNCHANGED <<elementsRef, rafVars>>
  /\ run' = IF elementsRef' # elementsRef THEN NoRun ELSE run
  /\ NotAFrame
  /\ UNCHANGED <<phase, historyRef, historyIndexRef, redoStackRef, nextId, toolVars,
                 pointerVars, viewVars, persistVars, shownVars, dirty, lateInstall,
                 committed, dragOrigin>>
  /\ pointerPos' = pos
  /\ UNCHANGED pointerIsDown

\* handleMove while drawing: a pencil path grows, a shape's end point
\* follows the pointer (an eraser path has no end point and is not a
\* 'pencil': it stays as it is).
PointerMoveDraw(pos) ==
  /\ UNCHANGED otherVars
  /\ phase = "mounted"
  /\ pointerIsDown /\ pos # pointerPos
  /\ ~isPanningRef
  /\ ~(isDraggingRef /\ selectedElementId # None)
  /\ isDrawingRef /\ currentElementRef # None
  /\ LET worldPos == screenToWorld(pos.x, pos.y, transform.scale, transform.offset)
         cur == currentElementRef[1]
     IN /\ (cur.type = "pencil" /\ cur.points # <<>>) => Len(cur.points) < MaxPoints
        /\ currentElementRef' =
             IF cur.type = "pencil" /\ cur.points # <<>>
             THEN Some([cur EXCEPT !.points = Append(@, worldPos)])
             ELSE IF cur.end # None
             THEN Some([cur EXCEPT !.end = Some(worldPos)])
             ELSE currentElementRef
  /\ SetRaf(scheduleActiveRedraw(Raf, transform, selectedElementId))
  /\ NotAFrame
  /\ UNCHANGED <<phase, histVars, toolVars, isDrawingRef, isPanningRef, isDraggingRef,
                 dragStartPosRef, dragElementStartPosRef, lastMousePosRef, viewVars,
                 persistVars, shownVars, ghostVars>>
  /\ pointerPos' = pos
  /\ UNCHANGED pointerIsDown

\* A validation that accepts every element in progress.
isValidAlways(cur) == TRUE

\* The validation of handleEnd.
isValid(cur) ==
  IF cur.type \in {"pencil", "eraser"} /\ cur.points # <<>> /\ Len(cur.points) > 1
  THEN TRUE
  ELSE IF cur.end # None
  THEN Abs(cur.end[1].x - cur.x) > 1 \/ Abs(cur.end[1].y - cur.y) > 1
  ELSE FALSE

\* handleEnd while panning.
PointerUpPan ==
  /\ UNCHANGED otherVars
  /\ phase = "mounted"
  /\ pointerIsDown
  /\ isPanningRef
  /\ isPanningRef' = FALSE
  /\ NotAFrame
  /\ UNCHANGED <<phase, histVars, toolVars, currentElementRef, isDrawingRef, isDraggingRef,
                 dragStartPosRef, dragElementStartPosRef, lastMousePosRef, viewVars,
                 persistVars, rafVars, shownVars, ghostVars>>
  /\ pointerIsDown' = FALSE
  /\ pointerPos' = Pt(0, 0)

\* handleEnd while dragging: the commit of a drag.
PointerUpDrag ==
  /\ UNCHANGED otherVars
  /\ phase = "mounted"
  /\ pointerIsDown
  /\ ~isPanningRef
  /\ isDraggingRef
  /\ isDraggingRef' = FALSE
  /\ SetHistory(saveToHistory(History, elementsRef))
  /\ SetTimer(debouncedSave(Timer))
  /\ SetRaf(scheduleActiveRedraw(scheduleStaticRedraw(Raf, transform, showGrid),
                                 transform, selectedElementId))
  /\ NotAFrame
  /\ dirty' = TRUE
  /\ committed' = TRUE
  /\ run' = NoRun
  /\ dragOrigin' = None
  \* The source leaves the two refs of the drag as they are.  They are read
  \* only while isDraggingRef is set, and handleStart sets them together with
  \* it, so forgetting them here changes nothing a later handler sees.
  /\ dragStartPosRef' = Pt(0, 0)
  /\ dragElementStartPosRef' = NoDragStart
  /\ UNCHANGED <<phase, elementsRef, nextId, toolVars, currentElementRef, isDrawingRef,
                 isPanningRef, lastMousePosRef,
                 viewVars, storage, dataLoadedRef, shownVars, lateInstall>>
  /\ pointerIsDown' = FALSE
  /\ pointerPos' = Pt(0, 0)

\* handleEnd while drawing: the element in progress is committed when valid
\* and discarded otherwise; the active canvas is cleared directly.
PointerUpDraw ==
  /\ UNCHANGED otherVars
  /\ phase = "mounted"
  /\ pointerIsDown
  /\ ~isPanningRef
  /\ ~isDraggingRef
  /\ isDrawingRef /\ currentElementRef # None
  /\ isDrawingRef' = FALSE
  /\ IF isValid(currentElementRef[1])
     THEN /\ SetHistory(saveToHistory(History, elementsRef))
          /\ elementsRef' = Append(elementsRef, currentElementRef[1])
          /\ nextId' = nextId + 1
          /\ SetTimer(debouncedSave(Timer))
          /\ dirty' = TRUE
          /\ committed' = TRUE
          /\ run' = RunAfterCommit(elementsRef, elementsRef')
     ELSE UNCHANGED <<histVars, saveTimeoutRef, timers, dirty, committed, run>>
  /\ NotAFrame
  /\ currentElementRef' = None
  /\ SetRaf(scheduleStaticRedraw(Raf, transform, showGrid))
  /\ activeShown' = None
  /\ UNCHANGED <<phase, toolVars, isPanningRef, isDraggingRef, dragStartPosRef,
                 dragElementStartPosRef, lastMousePosRef, viewVars, storage, dataLoadedRef,
                 staticShown, lateInstall, dragOrigin>>
  /\ pointerIsDown' = FALSE
  /\ pointerPos' = Pt(0, 0)

\* handleEnd with nothing in progress (also the mouse leaving the canvas).
PointerUpIdle ==
  /\ UNCHANGED otherVars
  /\ phase = "mounted"
  /\ pointerIsDown
  /\ ~isPanningRef
  /\ ~isDraggingRef
  /\ ~(isDrawingRef /\ currentElementRef # None)
  /\ NotAFrame
  /\ UNCHANGED <<phase, histVars, toolVars, pointerVars, viewVars, persistVars, rafVars,
                 shownVars, ghostVars>>
  /\ pointerIsDown' = FALSE
  /\ pointerPos' = Pt(0, 0)

\* ------------------------------------------------------------- keyboard, toolbar
\* handleKeyDown with Ctrl/Cmd+Z.
PressUndo ==
  /\ UNCHANGED otherVars
  /\ phase = "mounted"
  /\ LET U == handleUndo(History, elementsRef)
     IN /\ SetHistory(U.history)
        /\ elementsRef' = U.elements
        /\ SetTimer(IF U.restored THEN debouncedSave(Timer) ELSE Timer)
        /\ SetRaf(IF U.restored THEN scheduleStaticRedraw(Raf, transform, showGrid) ELSE Raf)
  /\ run' = RunAfterUndo
  /\ dragOrigin' = IF elementsRef' # elementsRef THEN None ELSE dragOrigin
  /\ NotAFrame
  /\ UNCHANGED <<phase, nextId, toolVars, pointerVars, viewVars, storage, dataLoadedRef,
                 shownVars, dirty, lateInstall, committed>>
  /\ UNCHANGED <<pointerIsDown, pointerPos>>

\* Ctrl/Cmd+Z while redoStackRef holds fewer than MaxRedo snapshots.
KeyUndo ==
  /\ historyIndexRef > 0 => Len(redoStackRef) < MaxRedo
  /\ PressUndo

\* handleKeyDown with Ctrl/Cmd+Shift+Z or Ctrl/Cmd+Y.
KeyRedo ==
  /\ UNCHANGED otherVars
  /\ phase = "mounted"
  /\ Len(redoStackRef) > 0 => Len(historyRef) < MAX_HISTORY_STEPS + MaxOverflow
  /\ LET U == handleRedo(History, elementsRef)
     IN /\ SetHistory(U.history)
        /\ elementsRef' = U.elements
        /\ SetTimer(IF U.restored THEN debouncedSave(Timer) ELSE Timer)
        /\ SetRaf(IF U.restored THEN scheduleStaticRedraw(Raf, transform, showGrid) ELSE Raf)
  /\ run' = RunAfterRedo
  /\ dragOrigin' = IF elementsRef' # elementsRef THEN None ELSE dragOrigin
  /\ NotAFrame
  /\ UNCHANGED <<phase, nextId, toolVars, pointerVars, viewVars, storage, dataLoadedRef,
                 shownVars, dirty, lateInstall, committed>>
  /\ UNCHANGED <<pointerIsDown, pointerPos>>

\* handleKeyDown with Delete or Backspace: handleDelete when an id is
\* selected, nothing otherwise.
KeyDelete ==
  /\ UNCHANGED otherVars
  /\ phase = "mounted"
  /\ IF selectedElementId # None
     THEN /\ SetHistory(saveToHistory(History, elementsRef))
          /\ elementsRef' = FilterOut(elementsRef, selectedElementId[1])
          /\ selectedElementId' = None
          /\ SetTimer(debouncedSave(Timer))
          /\ SetRaf(scheduleActiveRedraw(scheduleStaticRedraw(Raf, transform, showGrid),
                                         transform, selectedElementId))
          /\ dirty' = TRUE
          /\ committed' = TRUE
          /\ run' = RunAfterCommit(elementsRef, elementsRef')
          /\ dragOrigin' = IF elementsRef' # elementsRef THEN None ELSE dragOrigin
     ELSE UNCHANGED <<elementsRef, historyRef, historyIndexRef, redoStackRef,
                         selectedElementId, saveTimeoutRef, timers, rafVars, dirty,
                         committed, run, dragOrigin>>
  /\ NotAFrame
  /\ UNCHANGED <<phase, nextId, tool, textInputState, pointerVars, viewVars, storage,
                 dataLoadedRef, shownVars, lateInstall>>
  /\ UNCHANGED <<pointerIsDown, pointerPos>>

\* handleKeyDown with Escape; an open text overlay has the focus and its own
\* onKeyDown closes it.
KeyEscape ==
  /\ UNCHANGED otherVars
  /\ phase = "mounted"
  /\ selectedElementId' = None
  /\ textInputState' = None
  /\ SetRaf(scheduleActiveRedraw(Raf, transform, selectedElementId))
  /\ NotAFrame
  /\ UNCHANGED <<phase, histVars, tool, pointerVars, viewVars, persistVars, shownVars,
                 ghostVars>>
  /\ UNCHANGED <<pointerIsDown, pointerPos>>

clearCanvas ==
  /\ UNCHANGED otherVars
  /\ phase = "mounted"
  /\ ~pointerIsDown /\ textInputState = None
  /\ elementsRef' = <<>>
  /\ SetRaf(scheduleStaticRedraw(Raf, transform, showGrid))
  /\ dirty' = (dirty \/ elementsRef # <<>>)
  /\ committed' = (committed \/ elementsRef # <<>>)
  /\ run' = IF elementsRef # <<>> THEN NoRun ELSE run
  /\ NotAFrame
  /\ UNCHANGED <<phase, historyRef, historyIndexRef, redoStackRef, nextId, toolVars,
                 pointerVars, viewVars, persistVars, shownVars, lateInstall, dragOrigin>>
  /\ UNCHANGED <<pointerIsDown, pointerPos>>

\* handleTextCommit(text): Enter in the overlay, or its blur.
CommitText(text) ==
  /\ UNCHANGED otherVars
  /\ phase = "mounted"
  /\ textInputState # None
  /\ IF trim(text) = ""
     THEN /\ NotAFrame
          /\ UNCHANGED <<histVars, saveTimeoutRef, timers, rafVars, dirty, committed, run>>
     ELSE /\ SetHistory(saveToHistory(History, elementsRef))
          /\ elementsRef' = Append(elementsRef,
                                   TextElement(nextId, textInputState[1], trim(text)))
          /\ nextId' = nextId + 1
          /\ SetTimer(debouncedSave(Timer))
          /\ SetRaf(scheduleStaticRedraw(Raf, transform, showGrid))
          /\ dirty' = TRUE
          /\ committed' = TRUE
          /\ run' = RunAfterCommit(elementsRef, elementsRef')
          /\ NotAFrame
  /\ textInputState' = None
  /\ UNCHANGED <<phase, tool, selectedElementId, pointerVars, viewVars, storage,
                 dataLoadedRef, shownVars, lateInstall, dragOrigin>>
  /\ UNCHANGED <<pointerIsDown, pointerPos>>

\* A text commit while fewer than MaxIds elements have been created.
TextCommit(text) ==
  /\ trim(text) # "" => nextId <= MaxIds
  /\ CommitText(text)

\* ------------------------------------------------------------- PlanningBoard
\* components/planning/PlanningBoard.tsx: the stroke list, its two history
\* stacks and the selection.  A stroke is its points, its size and its tool;
\* the transform stays the identity (the pointer does not move while it
\* pans), so toWorldPos is the identity.  Selected indices are those of the
\* source, counted from 0.
\*
\* planningGhost.undoable is the list of the stroke lists before each commit
\* that has not been undone, never evicted; beforeUndo is the stroke list
\* before the undo that has just acted; run.final is the stroke list after
\* the last commit, run.undos and run.redos count the undo presses that
\* followed it and the redo presses that followed those; picked is
\* the selection as the user made it, each index with the stroke it named.

\* History depth of the board.  The source sets 50 (PlanningBoard.tsx:411).
PlanningHistoryLimit == 2
\* Strokes on the board.
MaxStrokes == 2
\* Commits that are not undone.
MaxCommits == 3
\* Distance between the two places strokes are drawn at.
BoardSpan == 40

\* useState(3), line 76
StrokeSize == 3

\* Where the pen is pressed and moved.
DrawPositions == {Pt(0, 0), Pt(BoardSpan, BoardSpan)}

\* Where the pan tool is pressed and moved: before, between and after the
\* two places.  Each is further than the handle radius (8) from every corner
\* the bounds of a selection can have, so getHandleAtPoint returns null and
\* handleStart never begins a resize.
SelectPositions == {Pt(0 - BoardSpan \div 2, 0 - BoardSpan \div 2),
                    Pt(BoardSpan \div 2, BoardSpan \div 2),
                    Pt(BoardSpan + BoardSpan \div 2, BoardSpan + BoardSpan \div 2)}

BoardPositions == DrawPositions \cup SelectPositions

RECURSIVE CoordMin(_, _, _)
CoordMin(points, i, xAxis) ==
  LET v == IF xAxis THEN points[i].x ELSE points[i].y
  IN IF i = Len(points) THEN v ELSE Min(v, CoordMin(points, i + 1, xAxis))

RECURSIVE CoordMax(_, _, _)
CoordMax(points, i, xAxis) ==
  LET v == IF xAxis THEN points[i].x ELSE points[i].y
  IN IF i = Len(points) THEN v ELSE Max(v, CoordMax(points, i + 1, xAxis))

\* isStrokeInSelection: the bounding boxes intersect.  halfSize is size / 2;
\* both sides of each comparison are doubled.
isStrokeInSelection(stroke, selectionStart, selectionEnd) ==
  IF Len(stroke.points) = 0 THEN FALSE
  ELSE LET selMinX == Min(selectionStart.x, selectionEnd.x)
           selMaxX == Max(selectionStart.x, selectionEnd.x)
           selMinY == Min(selectionStart.y, selectionEnd.y)
           selMaxY == Max(selectionStart.y, selectionEnd.y)
           strokeMinX2 == 2 * CoordMin(stroke.points, 1, TRUE) - stroke.size
           strokeMaxX2 == 2 * CoordMax(stroke.points, 1, TRUE) + stroke.size
           strokeMinY2 == 2 * CoordMin(stroke.points, 1, FALSE) - stroke.size
           strokeMaxY2 == 2 * CoordMax(stroke.points, 1, FALSE) + stroke.size
       IN ~(\/ strokeMaxX2 < 2 * selMinX \/ strokeMinX2 > 2 * selMaxX
            \/ strokeMaxY2 < 2 * selMinY \/ strokeMinY2 > 2 * selMaxY)

\* A saveToHistory that evicts the newest snapshot instead of the oldest.
PlanningBoard_saveToHistoryEvictNewest(B) ==
  LET pushed == Append(B.historyRef, DeepClone(B.strokesRef))
  IN [B EXCEPT !.historyRef = IF Len(pushed) > PlanningHistoryLimit
                              THEN SubSeq(pushed, 1, Len(pushed) - 1) ELSE pushed,
               !.redoHistoryRef = <<>>]

\* saveToHistory()
PlanningBoard_saveToHistory(B) ==
  LET pushed == Append(B.historyRef, DeepClone(B.strokesRef))
  IN [B EXCEPT !.historyRef = IF Len(pushed) > PlanningHistoryLimit
                              THEN Tail(pushed) ELSE pushed,
               !.redoHistoryRef = <<>>]

\* handleUndo(); the selection is left as it is.
PlanningBoard_handleUndo(B) ==
  IF Len(B.historyRef) > 0
  THEN LET pushed == Append(B.redoHistoryRef, DeepClone(B.strokesRef))
       IN [B EXCEPT !.redoHistoryRef = IF Len(pushed) > PlanningHistoryLimit
                                       THEN Tail(pushed) ELSE pushed,
                    !.strokesRef = B.historyRef[Len(B.historyRef)],
                    !.historyRef = SubSeq(B.historyRef, 1, Len(B.historyRef) - 1)]
  ELSE B

\* handleRedo()
PlanningBoard_handleRedo(B) ==
  IF Len(B.redoHistoryRef) > 0
  THEN LET pushed == Append(B.historyRef, DeepClone(B.strokesRef))
       IN [B EXCEPT !.historyRef = IF Len(pushed) > PlanningHistoryLimit
                                   THEN Tail(pushed) ELSE pushed,
                    !.strokesRef = B.redoHistoryRef[Len(B.redoHistoryRef)],
                    !.redoHistoryRef = SubSeq(B.redoHistoryRef, 1, Len(B.redoHistoryRef) - 1)]
  ELSE B

\* The strokes left by splice(index, 1) for each selected index, greatest
\* first: an index past the end removes nothing.
RemoveSelected(strokes, selected) ==
  LET keep == {k \in 1..Len(strokes) : (k - 1) \notin selected}
      F[k \in 0..Len(strokes)] ==
        IF k = 0 THEN <<>>
        ELSE IF k \in keep THEN Append(F[k - 1], strokes[k]) ELSE F[k - 1]
  IN F[Len(strokes)]

\* The history variables after a commit that took the strokes from before
\* to after.
GhostAfterCommit(before, after) ==
  [planningGhost EXCEPT !.undoable = Append(@, before),
                        !.beforeUndo = None,
                        !.run = [final |-> Some(after), undos |-> 0, redos |-> 0]]

\* The tool-change effect (lines 679-696) after setTool.
PlanningSetTool(t) ==
  /\ ~planningGhost.pointerIsDown
  /\ planningBoard.tool # t
  /\ LET clear == t # "pan" /\ planningBoard.selectedStrokesRef # {}
     IN /\ planningBoard' = [planningBoard EXCEPT
                               !.tool = t,
                               !.selectedStrokesRef = IF clear THEN {} ELSE @]
        /\ planningGhost' = [planningGhost EXCEPT !.picked = IF clear THEN {} ELSE @]
  /\ UNCHANGED <<whiteboardVars, pageVars>>

\* handleStart of the board.
PlanningPointerDown(pos, isCtrlKey) ==
  /\ ~planningGhost.pointerIsDown
  /\ pos \in (IF planningBoard.tool = "pan" THEN SelectPositions ELSE DrawPositions)
  /\ planningBoard.tool # "pan" => Len(planningBoard.strokesRef) < MaxStrokes
  /\ LET worldPos == pos
     IN planningBoard' =
          IF planningBoard.tool = "pan" /\ isCtrlKey
          THEN [planningBoard EXCEPT !.isSelectingRef = TRUE,
                                     !.selectedStrokesRef = {},
                                     !.selectionStartRef = Some(worldPos),
                                     !.selectionEndRef = Some(worldPos)]
          ELSE IF planningBoard.tool = "pan"
          THEN [planningBoard EXCEPT !.selectedStrokesRef = {},
                                     !.isPanningRef = TRUE]
          ELSE [planningBoard EXCEPT
                  !.isDrawingRef = TRUE,
                  !.currentStrokeRef =
                     Some([points |-> <<worldPos>>, size |-> StrokeSize,
                           tool |-> IF planningBoard.tool = "eraser" THEN "eraser" ELSE "pen"])]
  /\ planningGhost' = [planningGhost EXCEPT
                         !.pointerIsDown = TRUE,
                         !.picked = IF planningBoard.tool = "pan" THEN {} ELSE @]
  /\ UNCHANGED <<whiteboardVars, pageVars>>

\* handleMove of the board while selecting or drawing.  A draw visits a
\* place once.
PlanningPointerMove(pos) ==
  /\ planningGhost.pointerIsDown
  /\ ~planningBoard.isPanningRef
  /\ IF planningBoard.isSelectingRef
     THEN /\ pos \in SelectPositions
          /\ planningBoard.selectionEndRef # Some(pos)
          /\ planningBoard' = [planningBoard EXCEPT !.selectionEndRef = Some(pos)]
     ELSE /\ pos \in DrawPositions
          /\ planningBoard.isDrawingRef /\ planningBoard.currentStrokeRef # None
          /\ \A k \in 1..Len(planningBoard.currentStrokeRef[1].points) :
               planningBoard.currentStrokeRef[1].points[k] # pos
          /\ planningBoard' = [planningBoard EXCEPT
                                 !.currentStrokeRef[1].points = Append(@, pos)]
  /\ UNCHANGED <<planningGhost, whiteboardVars, pageVars>>

\* handleEnd of the board while selecting: the strokes whose box meets the
\* rectangle become the selection.
PlanningPointerUpSelect ==
  /\ planningGhost.pointerIsDown
  /\ planningBoard.isSelectingRef
  /\ LET B == planningBoard
         selected ==
           IF B.selectionStartRef # None /\ B.selectionEndRef # None
           THEN {i \in 0..(Len(B.strokesRef) - 1) :
                   isStrokeInSelection(B.strokesRef[i + 1], B.selectionStartRef[1],
                                       B.selectionEndRef[1])}
           ELSE B.selectedStrokesRef
     IN /\ planningBoard' = [B EXCEPT !.isSelectingRef = FALSE,
                                      !.selectedStrokesRef = selected,
                                      !.selectionStartRef = None,
                                      !.selectionEndRef = None]
        /\ planningGhost' = [planningGhost EXCEPT
                               !.pointerIsDown = FALSE,
                               !.picked = {<<i, B.strokesRef[i + 1]>> : i \in selected}]
  /\ UNCHANGED <<whiteboardVars, pageVars>>

\* handleEnd of the board while panning.
PlanningPointerUpPan ==
  /\ planningGhost.pointerIsDown
  /\ ~planningBoard.isSelectingRef
  /\ planningBoard.isPanningRef
  /\ planningBoard' = [planningBoard EXCEPT !.isPanningRef = FALSE]
  /\ planningGhost' = [planningGhost EXCEPT !.pointerIsDown = FALSE]
  /\ UNCHANGED <<whiteboardVars, pageVars>>

\* handleEnd of the board while drawing: the commit of a stroke.
PlanningPointerUpDraw ==
  /\ planningGhost.pointerIsDown
  /\ ~planningBoard.isSelectingRef /\ ~planningBoard.isPanningRef
  /\ planningBoard.isDrawingRef /\ planningBoard.currentStrokeRef # None
  /\ Len(planningGhost.undoable) < MaxCommits
  /\ LET cur == planningBoard.currentStrokeRef[1]
         saved == PlanningBoard_saveToHistory(planningBoard)
         B == IF Len(cur.points) > 0
              THEN [saved EXCEPT !.strokesRef = Append(@, cur)]
              ELSE planningBoard
     IN planningBoard' = [B EXCEPT !.isDrawingRef = FALSE, !.currentStrokeRef = None]
  /\ planningGhost' = [GhostAfterCommit(planningBoard.strokesRef, planningBoard'.strokesRef)
                         EXCEPT !.pointerIsDown = FALSE]
  /\ UNCHANGED <<whiteboardVars, pageVars>>

\* handleKeyDown of the board with the undo shortcut.
PlanningKeyUndo ==
  /\ LET r == planningGhost.run
     IN (r.final # None /\ r.redos = 0) => r.undos <= PlanningHistoryLimit
  /\ planningBoard' = PlanningBoard_handleUndo(planningBoard)
  /\ LET r == planningGhost.run
         acted == Len(planningBoard.historyRef) > 0
     IN planningGhost' =
          [planningGhost EXCEPT
             !.undoable = IF acted THEN SubSeq(@, 1, Len(@) - 1) ELSE @,
             !.beforeUndo = IF acted THEN Some(planningBoard.strokesRef) ELSE None,
             !.run = IF r.final # None /\ r.redos = 0
                     THEN [r EXCEPT !.undos = @ + 1]
                     ELSE NoBoardRun]
  /\ UNCHANGED <<whiteboardVars, pageVars>>

\* handleKeyDown of the board with the redo shortcut.
PlanningKeyRedo ==
  /\ Len(planningBoard.redoHistoryRef) > 0 => Len(planningGhost.undoable) < MaxCommits
  /\ planningBoard' = PlanningBoard_handleRedo(planningBoard)
  /\ LET r == planningGhost.run
         acted == Len(planningBoard.redoHistoryRef) > 0
     IN planningGhost' =
          [planningGhost EXCEPT
             !.undoable = IF acted THEN Append(@, planningBoard.strokesRef) ELSE @,
             !.beforeUndo = None,
             !.run = IF r.final # None /\ r.redos < r.undos
                     THEN [r EXCEPT !.redos = @ + 1]
                     ELSE IF r.undos = 0 THEN r ELSE NoBoardRun]
  /\ UNCHANGED <<whiteboardVars, pageVars>>

\* handleKeyDown of the board with Delete or Backspace.
PlanningKeyDelete ==
  /\ planningBoard.selectedStrokesRef # {} => Len(planningGhost.undoable) < MaxCommits
  /\ IF planningBoard.selectedStrokesRef # {}
     THEN /\ LET saved == PlanningBoard_saveToHistory(planningBoard)
             IN planningBoard' =
                  [saved EXCEPT !.strokesRef = RemoveSelected(@, saved.selectedStrokesRef),
                                !.selectedStrokesRef = {}]
          /\ planningGhost' = [GhostAfterCommit(planningBoard.strokesRef,
                                                planningBoard'.strokesRef)
                                 EXCEPT !.picked = {}]
     ELSE UNCHANGED <<planningBoard, planningGhost>>
  /\ UNCHANGED <<whiteboardVars, pageVars>>

\* clearCanvas of the board (the clear shortcut, the toolbar button).
PlanningBoard_clearCanvas ==
  /\ Len(planningGhost.undoable) < MaxCommits
  /\ planningBoard' = [PlanningBoard_saveToHistory(planningBoard) EXCEPT !.strokesRef = <<>>]
  /\ planningGhost' = GhostAfterCommit(planningBoard.strokesRef, <<>>)
  /\ UNCHANGED <<whiteboardVars, pageVars>>

\* ------------------------------------------------------------- page transition
\* hooks/usePageTransition.ts as App.tsx calls it from changeTab.  A pending
\* timeout is its id, the callback it runs ("entering": the callback of
\* line 36, "blurOff": line 42, "idle": line 46) and, for the verification
\* only, the number of the startTransition call it belongs to.  Ids grow
\* from 1 and are never given twice; the timeouts fire in any order, which
\* covers every value of duration.  App never unmounts, so the cleanup of
\* lines 53-62 does not run.
\*
\* pageGhost.calls counts the startTransition calls, pageGhost.ends the
\* onTransitionEnd calls since the last of them.

\* Calls of startTransition.
MaxCalls == 3

Tabs == {"dashboard", "journal", "stats"}

\* A startTransition that clears no timeout.
startTransitionNoClear(P, call) ==
  [P EXCEPT !.transitionState = "exiting",
            !.isBlurActive = FALSE,
            !.timeoutRef = P.nextTimeout,
            !.pending = @ \cup {[id |-> P.nextTimeout, callback |-> "entering", call |-> call]},
            !.nextTimeout = @ + 1]

\* startTransition(): lines 23-51, up to the setTimeout of line 36.
startTransition(P, call) ==
  LET afterClear == {t \in P.pending : t.id # P.timeoutRef /\ t.id # P.blurTimeoutRef}
  IN [P EXCEPT !.transitionState = "exiting",
               !.isBlurActive = FALSE,
               !.timeoutRef = P.nextTimeout,
               !.pending = afterClear \cup
                             {[id |-> P.nextTimeout, callback |-> "entering", call |-> call]},
               !.nextTimeout = @ + 1]

\* The callback of a timeout of the hook.
RunTimeout(P, t) ==
  LET fired == [P EXCEPT !.pending = @ \ {t}]
  IN IF t.callback = "entering"
     THEN [fired EXCEPT
             !.transitionState = "entering",
             !.isBlurActive = TRUE,
             !.blurTimeoutRef = P.nextTimeout,
             !.timeoutRef = P.nextTimeout + 1,
             !.pending = @ \cup {[id |-> P.nextTimeout, callback |-> "blurOff", call |-> t.call],
                                 [id |-> P.nextTimeout + 1, callback |-> "idle", call |-> t.call]},
             !.nextTimeout = @ + 2]
     ELSE IF t.callback = "blurOff"
     THEN [fired EXCEPT !.isBlurActive = FALSE]
     ELSE [fired EXCEPT !.transitionState = "idle"]

\* changeTab(tab) of App.
ChangeTab(tab) ==
  /\ pageGhost.calls < MaxCalls
  /\ tab # currentTab
  /\ pageTransition' = startTransition(pageTransition, pageGhost.calls + 1)
  /\ tabFrames' = Append(tabFrames, tab)
  /\ pageGhost' = [calls |-> pageGhost.calls + 1, ends |-> 0]
  /\ UNCHANGED <<currentTab, whiteboardVars, boardVars>>

\* The animation frame of App: the callbacks of changeTab, in order.
TabFrame ==
  /\ tabFrames # <<>>
  /\ currentTab' = tabFrames[Len(tabFrames)]
  /\ tabFrames' = <<>>
  /\ UNCHANGED <<pageTransition, pageGhost, whiteboardVars, boardVars>>

\* A timeout of the hook fires.
TimeoutFire(t) ==
  /\ t \in pageTransition.pending
  /\ pageTransition' = RunTimeout(pageTransition, t)
  /\ pageGhost' = [pageGhost EXCEPT !.ends = IF t.callback = "idle" THEN @ + 1 ELSE @]
  /\ UNCHANGED <<currentTab, tabFrames, whiteboardVars, boardVars>>

TimeoutFires == \E t \in pageTransition.pending : TimeoutFire(t)

\* ------------------------------------------------------------- specifications
\* Spec: the document and its history on a board that starts empty.  The
\* handlers that change them with the text tool and the select tool (text
\* commits, drags, delete, clear, undo, redo); the pointer is pressed with
\* one of these two tools.  Drawing is left to SpecDraw, the save timeout to
\* SpecSave and SpecPersist, the frames to SpecRedraw.
DocTools == {"text", "select"}

DocPointerDown(pos) ==
  /\ tool \in DocTools
  /\ PointerDown(pos, FALSE)

Next ==
  \/ Mount
  \/ \E t \in DocTools : SetTool(t)
  \/ \E pos \in Positions : DocPointerDown(pos)
  \/ \E pos \in Positions : PointerMoveDrag(pos)
  \/ PointerUpDrag
  \/ PointerUpIdle
  \/ KeyUndo
  \/ KeyRedo
  \/ KeyDelete
  \/ clearCanvas
  \/ \E text \in Texts : TextCommit(text)

InitDoc == Init /\ storage = Absent

Spec == InitDoc /\ [][Next]_vars

\* SpecPersist: the document and the store.  The save timeout, the handlers
\* that change the document with the pen and the select tool, a render that
\* re-runs the load effect (the grid toggle) and the unmount, for every kind
\* of stored payload; the pointer is released where it was pressed unless
\* it draws.
PersistTools == {"pen", "select"}

NextPersist ==
  \/ Mount
  \/ Unmount
  \/ SaveTimerFire
  \/ ToggleGrid
  \/ \E t \in PersistTools : SetTool(t)
  \/ \E pos \in Positions : PointerDown(pos, FALSE)
  \/ \E pos \in Positions : PointerMoveDraw(pos)
  \/ PointerUpDrag
  \/ PointerUpDraw
  \/ PointerUpIdle
  \/ KeyDelete
  \/ clearCanvas

SpecPersist == Init /\ [][NextPersist]_vars

\* SpecRedraw: the two surfaces over a stored document.  The frames, every
\* change of the transform and of the selection, the handlers that request
\* redraws while panning and selecting; the pointer is pressed with the pan
\* or the select tool, or as a pan click, and released where it was pressed
\* unless it pans.
RedrawTools == {"pan", "select"}

RedrawPointerDown(pos, panClick) ==
  /\ tool \in RedrawTools \/ panClick
  /\ PointerDown(pos, panClick)

NextRedraw ==
  \/ Mount
  \/ Frame
  \/ \E delta \in WheelDeltas : WheelPan(delta)
  \/ ResetView
  \/ \E t \in RedrawTools : SetTool(t)
  \/ \E pos \in Positions, panClick \in BOOLEAN : RedrawPointerDown(pos, panClick)
  \/ \E pos \in Positions : PointerMovePan(pos)
  \/ PointerUpPan
  \/ PointerUpDrag
  \/ PointerUpIdle
  \/ KeyEscape

InitRedraw == Init /\ storage = JSONstringify(StoredDocument)

SpecRedraw == InitRedraw /\ [][NextRedraw]_vars

\* SpecSave: the save timer over every kind of stored payload.  The
\* handlers that call debouncedSave when text is committed, undo and redo,
\* the timeout, the unmount; the pointer is pressed with the text tool, at
\* the origin.
TextPointerDown(pos) ==
  /\ tool = "text"
  /\ PointerDown(pos, FALSE)

NextSave ==
  \/ Mount
  \/ Unmount
  \/ SaveTimerFire
  \/ SetTool("text")
  \/ TextPointerDown(Pt(0, 0))
  \/ PointerUpIdle
  \/ \E text \in Texts : TextCommit(text)
  \/ KeyUndo
  \/ KeyRedo

SpecSave == Init /\ [][NextSave]_vars

\* SpecDraw: drawing on a board that starts empty, with the pencil, the
\* eraser and the four shape tools.
NextDraw ==
  \/ Mount
  \/ \E t \in DrawTools : SetTool(t)
  \/ \E pos \in Positions : PointerDown(pos, FALSE)
  \/ \E pos \in Positions : PointerMoveDraw(pos)
  \/ PointerUpDraw

SpecDraw == InitDoc /\ [][NextDraw]_vars

\* SpecDrawKeys: SpecDraw with the undo and redo keys, which the window
\* listens to at any moment of a draw.
NextDrawKeys ==
  \/ Mount
  \/ \E t \in DrawTools : SetTool(t)
  \/ \E pos \in Positions : PointerDown(pos, FALSE)
  \/ \E pos \in Positions : PointerMoveDraw(pos)
  \/ PointerUpDraw
  \/ KeyUndo
  \/ KeyRedo

SpecDrawKeys == InitDoc /\ [][NextDrawKeys]_vars

\* SpecDrag: text elements and the select tool that drags them; no key is
\* pressed.
NextDrag ==
  \/ Mount
  \/ \E t \in DocTools : SetTool(t)
  \/ \E pos \in Positions : DocPointerDown(pos)
  \/ \E pos \in Positions : PointerMoveDrag(pos)
  \/ PointerUpDrag
  \/ PointerUpIdle
  \/ \E text \in Texts : TextCommit(text)

SpecDrag == InitDoc /\ [][NextDrag]_vars

\* SpecScenario: text commits and undos on a fresh empty board, up to
\* MAX_HISTORY_STEPS + ExtraCommits commits and MAX_HISTORY_STEPS snapshots
\* on the redo stack.
ScenarioCommit ==
  /\ nextId <= MAX_HISTORY_STEPS + ExtraCommits
  /\ CommitText("a")

ScenarioUndo ==
  /\ Len(redoStackRef) < MAX_HISTORY_STEPS
  /\ PressUndo

NextScenario ==
  \/ Mount
  \/ SetTool("text")
  \/ \E pos \in Positions : TextPointerDown(pos)
  \/ PointerUpIdle
  \/ ScenarioCommit
  \/ ScenarioUndo

SpecScenario == InitDoc /\ [][NextScenario]_vars

\* SpecView: the transform on a board that starts empty.  Wheel zooms and
\* pans, pans with the pointer (a pan click with the pen), view resets, and
\* the frames that draw the views.
ViewPositions == Positions \cup {Pt(Grid, 0)}

NextView ==
  \/ Mount
  \/ Frame
  \/ \E s \in ViewPositions, deltaY \in ZoomDeltas : WheelZoom(s, deltaY)
  \/ \E delta \in WheelDeltas : WheelPan(delta)
  \/ \E pos \in ViewPositions : PointerDown(pos, TRUE)
  \/ \E pos \in ViewPositions : PointerMovePan(pos)
  \/ PointerUpPan
  \/ ResetView

SpecView == InitDoc /\ [][NextView]_vars

\* SpecHit: hit tests on a board that starts empty and is wider than the
\* hit threshold.  Pencil paths and circles are drawn between the corners
\* and the middle of the board and picked with the select tool; the pointer
\* is released where it was pressed when it has picked an element.
HitPositions == {Pt(0, 0), Pt(HitSpan, 0), Pt(HitSpan \div 2, HitSpan \div 2)}

HitTools == {"circle", "select"}

NextHit ==
  \/ Mount
  \/ \E t \in HitTools : SetTool(t)
  \/ \E pos \in HitPositions : PointerDown(pos, FALSE)
  \/ \E pos \in HitPositions : PointerMoveDraw(pos)
  \/ PointerUpDraw
  \/ PointerUpDrag
  \/ PointerUpIdle

SpecHit == InitDoc /\ [][NextHit]_vars

\* ------------------------------------------------------------- properties
\* C1.  When a commit (stroke or shape completion, text commit, delete) has
\* just changed the document from D to D', the next handleUndo sets the
\* document to D, whatever the number of commits before it: in the state
\* after the first handleUndo that follows a run of commits, the document
\* is the one before the last commit of the run.
C1_UndoRestoresDocumentBeforeLastCommit ==
  (run.undos = 1 /\ run.redos = 0) => elementsRef = run.docs[Len(run.docs) - 1]

\* C2.  Undo/redo inverse law: after N >= 1 commits made from a document S
\* and ending in F (N within the history bound), N calls of handleUndo make
\* the document S, and N calls of handleRedo after them make it F.  S is
\* any document of a run of commits, N the number of commits after it.
C2_UndoRedoInverseLaw ==
  (run.undos >= 1 /\ run.undos <= MAX_HISTORY_STEPS) =>
    /\ run.redos = 0 => elementsRef = run.docs[Len(run.docs) - run.undos]
    /\ run.redos = run.undos => elementsRef = run.docs[Len(run.docs)]

\* C3.  Every operation that changes the document (stroke or shape
\* completion, text commit, delete of the selected element, clear; the
\* commit at pointer-up of a drag that moved an element) appends to the
\* history a snapshot equal to the document before the operation changed
\* it: the document before the step, and for a drag the document at the
\* pointer-down that began it.
C3_MutationAppendsPriorSnapshot ==
  [][LET Appended(doc) ==
           /\ historyRef' # <<>>
           /\ historyRef'[Len(historyRef')] = doc
           /\ historyIndexRef' = Len(historyRef')
     IN /\ ((\/ PointerUpDraw
             \/ \E text \in Texts : TextCommit(text)
             \/ KeyDelete
             \/ clearCanvas) /\ elementsRef' # elementsRef) => Appended(elementsRef)
        /\ (PointerUpDrag /\ dragOrigin # None /\ elementsRef # dragOrigin[1])
             => Appended(dragOrigin[1])]_vars

\* C4.  Redo invalidation: when the redo stack is not empty (after undos),
\* an operation that changes the document (stroke or shape completion, text
\* commit, drag commit, delete, clear of a board that is not empty) leaves
\* the redo stack empty, and a handleRedo that follows changes neither the
\* document nor the history.
C4_MutationInvalidatesRedo ==
  [][((\/ PointerUpDraw /\ elementsRef' # elementsRef
       \/ \E text \in Texts : TextCommit(text) /\ elementsRef' # elementsRef
       \/ PointerUpDrag
       \/ KeyDelete /\ selectedElementId # None
       \/ clearCanvas /\ elementsRef # <<>>) /\ redoStackRef # <<>>)
      => LET after == handleRedo([historyRef |-> historyRef',
                                  historyIndexRef |-> historyIndexRef',
                                  redoStackRef |-> redoStackRef'], elementsRef')
         IN /\ redoStackRef' = <<>>
            /\ after.elements = elementsRef'
            /\ after.history.historyRef = historyRef']_vars

\* C5.  In every reachable state, after any interleaving of commits,
\* handleUndo and handleRedo, historyRef holds at most MAX_HISTORY_STEPS
\* snapshots.
C5_HistoryWithinBound == Len(historyRef) <= MAX_HISTORY_STEPS

\* C6.  Boundary operations are no-ops: handleUndo on a board on which
\* nothing has been committed, and handleRedo with an empty redo stack,
\* leave the document, the history list, the history index and the redo
\* stack unchanged.
C6_BoundaryUndoRedoAreNoOps ==
  [][/\ (KeyUndo /\ ~committed)
          => UNCHANGED <<elementsRef, historyRef, historyIndexRef, redoStackRef>>
     /\ (KeyRedo /\ redoStackRef = <<>>)
          => UNCHANGED <<elementsRef, historyRef, historyIndexRef, redoStackRef>>]_vars

\* C7.  While the component is mounted, a mutation of the document is
\* written to the store when no other follows it.  The only write is the
\* one of the save timer, so whenever a mutation has not been written yet
\* the timer must be pending.
C7_UnsavedMutationHasPendingWrite ==
  (phase = "mounted" /\ dirty) => saveTimerPending

\* C8.  The stored document is installed at most once, at startup: for every
\* kind of stored payload, no later render replaces the in-memory document
\* with the content of the store once the user has committed a mutation.
C8_NoInstallAfterCommit == ~lateInstall

\* C9.  A redraw that runs renders the state current when it runs: in the
\* state after a frame, a surface the frame has redrawn shows the current
\* transform, and the active surface the current selected element id.
C9_RedrawUsesLatestState ==
  /\ frameLog.static.draws > 0 =>
       /\ staticShown # None
       /\ staticShown[1].transform = transform
  /\ frameLog.active.draws > 0 =>
       /\ activeShown # None
       /\ activeShown[1].transform = transform
       /\ activeShown[1].selectedElementId = selectedElementId

\* C10.  For each surface at most one animation-frame callback is pending
\* at any time, and a frame redraws a surface exactly once when redraws of
\* it were requested since the frame before, however many, and not at all
\* otherwise.
C10_OnePendingOneRedraw ==
  /\ \A s \in {"static", "active"} :
       Cardinality({k \in 1..Len(rafQueue) : rafQueue[k].surface = s}) <= 1
  /\ frameLog.static.draws = (IF frameLog.static.requested > 0 THEN 1 ELSE 0)
  /\ frameLog.active.draws = (IF frameLog.active.requested > 0 THEN 1 ELSE 0)

\* C10, reached: a frame that followed several requests for each surface
\* and redrew each once.
C10_ManyRequestsOneRedraw ==
  /\ frameLog.static.requested >= 2 /\ frameLog.static.draws = 1
  /\ frameLog.active.requested >= 2 /\ frameLog.active.draws = 1

\* C11.  Persistence writes are debounced: at most one timeout of
\* debouncedSave is pending at any time; every handler that calls
\* debouncedSave leaves exactly the timeout it started pending, which is not
\* one that was pending before (the pending one was cleared); and the
\* timeout that fires writes the document as it is when it fires and leaves
\* no timeout behind, so the commits made while a timeout was pending are
\* written by one write that holds them all.
C11_TrueDebounce ==
  [][LET SaveCall ==
           \/ PointerUpDrag
           \/ PointerUpDraw /\ elementsRef' # elementsRef
           \/ \E text \in Texts : TextCommit(text) /\ elementsRef' # elementsRef
           \/ KeyDelete /\ selectedElementId # None
           \/ KeyUndo /\ handleUndo(History, elementsRef).restored
           \/ KeyRedo /\ handleRedo(History, elementsRef).restored
     IN /\ Cardinality(timers') <= 1
        /\ SaveCall => (timers' = {saveTimeoutRef'} /\ saveTimeoutRef' \notin timers)
        /\ SaveTimerFire => (storage' = JSONstringify(elementsRef) /\ timers' = {})]_vars

\* C11, reached: the timeout that fired last was started while another was
\* pending (FreshTimer gave it the id 2), nothing is pending, and the store
\* holds the document of two commits.
C11_BurstWrittenOnce ==
  /\ timers = {} /\ saveTimeoutRef = 2
  /\ Len(elementsRef) = 2
  /\ storage = JSONstringify(elementsRef)

\* C12.  Degenerate rejection: when the pointer is released where it was
\* pressed and the element in progress is still the one handleStart made
\* there (a shape whose end is its start, or a pencil path of the one
\* point), handleEnd adds no element and leaves the history list, the
\* history index and the redo stack as they are.
C12_DegenerateAttemptIsDiscarded ==
  [][LET worldPos == screenToWorld(pointerPos.x, pointerPos.y, transform.scale,
                                   transform.offset)
         Untouched ==
           /\ currentElementRef # None
           /\ LET cur == currentElementRef[1]
              IN \/ cur.type \in ShapeTools /\ cur = ShapeElement(cur.id, cur.type, worldPos)
                 \/ cur.type = "pencil" /\ cur = PathElement(cur.id, "pencil", worldPos)
     IN (Untouched /\ PointerUpDraw)
          => UNCHANGED <<elementsRef, historyRef, historyIndexRef, redoStackRef>>]_vars

\* C12, reached: with a shape tool active the pointer is up again after a
\* press that no move followed (one handler has requested an active redraw:
\* handleStart; a handleMove would have requested another), and the
\* document and the history are those of the mount.
C12_ClickWithShapeToolDiscarded ==
  /\ tool \in ShapeTools
  /\ ~pointerIsDown /\ currentElementRef = None
  /\ requested.active = 1
  /\ elementsRef = <<>> /\ nextId = 1
  /\ historyRef = <<<<>>>> /\ historyIndexRef = 1 /\ redoStackRef = <<>>

\* C13.  With the eraser as with the pencil, every pointer-move while
\* drawing appends the current world point to the path in progress, and a
\* pointer-up that follows at least one move (the pointer is away from the
\* first point of the path) commits one eraser element whose path ends at
\* the last point visited.
C13_EraserPathGrowsAndCommits ==
  [][/\ \A pos \in Positions :
          (/\ currentElementRef # None
           /\ currentElementRef[1].type \in {"pencil", "eraser"}
           /\ PointerMoveDraw(pos))
            => currentElementRef'[1].points =
                 Append(currentElementRef[1].points,
                        screenToWorld(pos.x, pos.y, transform.scale, transform.offset))
     /\ LET worldPos == screenToWorld(pointerPos.x, pointerPos.y, transform.scale,
                                      transform.offset)
        IN (/\ currentElementRef # None
            /\ currentElementRef[1].type = "eraser"
            /\ worldPos # Pt(currentElementRef[1].x, currentElementRef[1].y)
            /\ PointerUpDraw)
             => /\ Len(elementsRef') = Len(elementsRef) + 1
                /\ elementsRef'[Len(elementsRef')].type = "eraser"
                /\ LET points == elementsRef'[Len(elementsRef')].points
                   IN points[Len(points)] = worldPos]_vars

\* C14.  When the store holds nothing, a string that cannot be parsed, or
\* JSON that is not an array, the mount leaves the document empty and no
\* error leaves the load effect: the component is mounted.
C14_BadStoreMountsEmpty ==
  [][(Mount /\ storage.kind \in {"absent", "unparsable", "nonarray"})
       => (elementsRef' = <<>> /\ phase' = "mounted")]_vars

\* C14, reached: mounted over a store that cannot be parsed, the document
\* empty.
C14_MountedOverUnparsableStore ==
  /\ phase = "mounted" /\ storage = Unparsable
  /\ elementsRef = <<>> /\ dataLoadedRef

\* C15.  History bound scenario: on a fresh empty board (every element ever
\* created belongs to the run of commits observed, which began with the
\* empty document), after MAX_HISTORY_STEPS + k commits that each add one
\* element, k >= 1, historyRef holds exactly MAX_HISTORY_STEPS snapshots,
\* and after MAX_HISTORY_STEPS calls of handleUndo that follow them the
\* document is not empty.
C15_HistoryBoundScenario ==
  LET n == Len(run.docs) - 1
  IN (/\ run.docs # <<>> /\ run.docs[1] = <<>>
      /\ nextId = n + 1
      /\ n > MAX_HISTORY_STEPS
      /\ \A j \in 1..n : Len(run.docs[j + 1]) = j)
       => /\ run.undos = 0 => Len(historyRef) = MAX_HISTORY_STEPS
          /\ run.undos = MAX_HISTORY_STEPS => elementsRef # <<>>

\* C15, reached: MAX_HISTORY_STEPS + ExtraCommits commits from the empty
\* board and MAX_HISTORY_STEPS undos after them.
C15_UndoneToTheOldestSnapshot ==
  /\ Len(run.docs) = MAX_HISTORY_STEPS + ExtraCommits + 1
  /\ run.docs[1] = <<>> /\ nextId = Len(run.docs)
  /\ run.undos = MAX_HISTORY_STEPS
  /\ Len(historyRef) = MAX_HISTORY_STEPS
  /\ elementsRef # <<>>

\* C16.  Zoom anchoring: at every transform reached and for every pointer
\* position s and wheel delta, the transform that a Ctrl+wheel zoom at s
\* produces (the scale clamped or not) maps s to the world point it mapped
\* to before.  The world coordinates (s - offset) / scale are compared as
\* fractions: after the zoom (s * den - num) / (den * newScale), before it
\* (s - offset) / scale.
C16_ZoomKeepsWorldPointUnderPointer ==
  \A s \in ViewPositions, deltaY \in ZoomDeltas :
    LET z == handleWheelZoom(transform, s, deltaY)
    IN /\ (s.x * z.offsetDen - z.offsetNum.x) * transform.scale
            = (s.x - transform.offset.x) * z.offsetDen * z.scale
       /\ (s.y * z.offsetDen - z.offsetNum.y) * transform.scale
            = (s.y - transform.offset.y) * z.offsetDen * z.scale

\* C16, reached: a zoom away from the offset has been clamped at the largest
\* scale (the wheel deltas reach it only through the clamp) and has moved
\* the offset.
C16_ZoomedInToTheClamp ==
  /\ transform.scale = MaxScale
  /\ transform.offset.x < 0 /\ transform.offset.y < 0

\* C17.  From scale 1, after any sequence of wheel zooms, wheel pans,
\* pointer pans and view resets the scale is within [0.1, 10], and a pan
\* leaves the scale as it was.
C17_ScaleStaysClamped ==
  [][/\ transform'.scale >= MinScale /\ transform'.scale <= MaxScale
     /\ ((\/ \E delta \in WheelDeltas : WheelPan(delta)
          \/ \E pos \in ViewPositions : PointerMovePan(pos))
           => transform'.scale = transform.scale)]_vars

\* C17, reached: the scale at its lower clamp after a pan.
C17_PannedAtSmallestScale ==
  /\ transform.scale = MinScale
  /\ transform.offset # Pt(0, 0)

\* C18.  Hit-test z-order: for the document and every point of the board,
\* getElementAtPosition returns the element of greatest index among those
\* that the type-specific test accepts at the point, and null when it
\* accepts none.
C18_HitIsTopmostAccepted ==
  \A p \in HitPositions :
    LET t == 5000 \div transform.scale
        S == {i \in 1..Len(elementsRef) : DetailedHit(p.x, p.y, elementsRef[i], t)}
        top == IF S = {} THEN None
               ELSE Some(elementsRef[CHOOSE i \in S : \A j \in S : j <= i])
    IN getElementAtPosition(p.x, p.y, elementsRef, t) = top

\* C19.  Delete or Backspace with no selection target is a no-op: when no
\* id is selected, or the selected id names no element of the document, the
\* key leaves the document, the history list, the history index and the
\* redo stack as they are.
C19_DeleteWithoutTargetIsNoOp ==
  [][(/\ selectedElementId = None \/ FindIndex(elementsRef, selectedElementId[1]) = 0
      /\ KeyDelete)
       => UNCHANGED <<elementsRef, historyRef, historyIndexRef, redoStackRef>>]_vars

\* C20.  The bounding-box rejection of getElementAtPosition never changes
\* its result: for every element of the document and every point of the
\* board, when the type-specific test accepts the point the bounding-box
\* test does not reject the element.
C20_CoarseTestNeverRejectsAHit ==
  \A p \in HitPositions : \A i \in 1..Len(elementsRef) :
    LET t == 5000 \div transform.scale
    IN DetailedHit(p.x, p.y, elementsRef[i], t) => ~CoarseReject(p.x, p.y, elementsRef[i], t)

\* ------------------------------------------------------------- interaction state
\* handleEnd, whichever branch it takes.
PointerUp == PointerUpPan \/ PointerUpDrag \/ PointerUpDraw \/ PointerUpIdle

\* C21.  One interaction at a time, and every pointer-up returns to idle:
\* no step leaves two of isDrawingRef, isPanningRef, isDraggingRef set, and
\* after every handleEnd the three are clear and currentElementRef is empty.
C21_OneInteractionAndPointerUpIdles ==
  [][/\ ~(isDrawingRef' /\ isPanningRef')
     /\ ~(isDrawingRef' /\ isDraggingRef')
     /\ ~(isPanningRef' /\ isDraggingRef')
     /\ PointerUp => /\ ~isDrawingRef' /\ ~isPanningRef' /\ ~isDraggingRef'
                     /\ currentElementRef' = None]_vars

\* C23.  A tool change resets the ephemeral state: after setTool no element
\* is selected and no drawing, dragging or panning is in progress, and a
\* Delete pressed next removes nothing.
C23_ToolChangeResetsEphemeralState ==
  [][(\E t \in Tools : SetTool(t))
       => /\ selectedElementId' = None
          /\ ~isDrawingRef' /\ ~isPanningRef' /\ ~isDraggingRef'
          /\ currentElementRef' = None]_vars

C27_SelectClickKeepsHistory ==
  [][(PointerUpDrag /\ dragOrigin # None /\ elementsRef = dragOrigin[1])
       => UNCHANGED <<elementsRef, historyRef, historyIndexRef, redoStackRef>>]_vars

\* C28.  While the text overlay is open the document changes on a text
\* commit only: no key press (Delete, Backspace, Ctrl/Cmd+Z, redo) changes
\* it.
C28_OverlayKeysLeaveDocument ==
  [][(textInputState # None /\ ~(\E text \in Texts : CommitText(text)))
       => elementsRef' = elementsRef]_vars

\* C22.  The document is not changed while a draw is in progress: from the
\* pointer-down that fills currentElementRef to the pointer-up that ends the
\* draw, no pointer-move and no key press changes elementsRef.
C22_NoDocumentChangeDuringDraw ==
  [][(pointerIsDown /\ isDrawingRef /\ currentElementRef # None /\ ~PointerUpDraw)
       => elementsRef' = elementsRef]_vars

\* C26.  A board mounted over a stored document L has L as the baseline of
\* its history: the handleUndo that follows one commit made on top of L
\* makes the document L again, and no handleUndo takes an element of L out
\* of the document (SpecSave has no handler that deletes an element).
C26_StoredDocumentIsTheBaseline ==
  [][/\ (/\ run'.docs # <<>> /\ Len(run'.docs) = 2 /\ run'.docs[1] = StoredDocument
         /\ run'.undos = 1 /\ run'.redos = 0)
          => elementsRef' = StoredDocument
     /\ PressUndo =>
          \A k \in 1..Len(StoredDocument) :
            FindIndex(elementsRef, StoredDocument[k].id) # 0
              => FindIndex(elementsRef', StoredDocument[k].id) # 0]_vars

\* ------------------------------------------------------------- PlanningBoard: specification and claims
\* SpecBoard: the PlanningBoard.  Strokes are drawn with the pen, selected
\* with the pan tool and Ctrl, deleted, cleared, undone and redone; the
\* keys are pressed between two gestures of the pointer.
BoardTools == {"pen", "pan"}

BoardKeyUndo == ~planningGhost.pointerIsDown /\ PlanningKeyUndo

BoardKeyRedo == ~planningGhost.pointerIsDown /\ PlanningKeyRedo

BoardKeyDelete == ~planningGhost.pointerIsDown /\ PlanningKeyDelete

BoardClear == ~planningGhost.pointerIsDown /\ PlanningBoard_clearCanvas

NextBoard ==
  \/ \E t \in BoardTools : PlanningSetTool(t)
  \/ \E pos \in BoardPositions, isCtrlKey \in BOOLEAN : PlanningPointerDown(pos, isCtrlKey)
  \/ \E pos \in BoardPositions : PlanningPointerMove(pos)
  \/ PlanningPointerUpSelect
  \/ PlanningPointerUpPan
  \/ PlanningPointerUpDraw
  \/ BoardKeyUndo
  \/ BoardKeyRedo
  \/ BoardKeyDelete
  \/ BoardClear

SpecBoard == InitDoc /\ [][NextBoard]_vars

C29_SelectionNamesSelectedStrokes ==
  \A i \in planningBoard.selectedStrokesRef :
    /\ i < Len(planningBoard.strokesRef)
    /\ <<i, planningBoard.strokesRef[i + 1]>> \in planningGhost.picked

\* ------------------------------------------------------------- page transition: specifications and claim
\* SpecPage: the page transition of App.
NextPage ==
  \/ \E tab \in Tabs : ChangeTab(tab)
  \/ TabFrame
  \/ TimeoutFires

SpecPage == InitDoc /\ [][NextPage]_vars

\* SpecPageFair: a pending timeout fires in the end (the event loop runs
\* every timeout that is not cleared).
SpecPageFair == InitDoc /\ [][NextPage]_vars /\ WF_vars(TimeoutFires)

\* The hook is at rest: nothing pending, idle, no blur, and onTransitionEnd
\* was called once since the last startTransition.
PageAtRest ==
  /\ pageTransition.pending = {}
  /\ pageTransition.transitionState = "idle"
  /\ ~pageTransition.isBlurActive
  /\ pageGhost.calls > 0 => pageGhost.ends = 1

\* C30.  usePageTransition under any sequence of startTransition calls: a
\* timeout that fires belongs to the last call; the state changes only to
\* exiting by a call, from exiting to entering and from entering to idle;
\* onTransitionEnd is called at most once after a call; and once the calls
\* stop the hook comes to rest idle, without blur, onTransitionEnd called
\* exactly once after the last call.
C30_TransitionSettlesOnceAfterLastCall ==
  /\ [][/\ \A t \in pageTransition.pending :
             TimeoutFire(t) => t.call = pageGhost.calls
        /\ pageTransition'.transitionState # pageTransition.transitionState
             => \/ pageTransition'.transitionState = "exiting" /\ pageGhost'.calls > pageGhost.calls
                \/ /\ pageTransition.transitionState = "exiting"
                   /\ pageTransition'.transitionState = "entering"
                \/ /\ pageTransition.transitionState = "entering"
                   /\ pageTransition'.transitionState = "idle"
        /\ pageGhost'.ends <= 1]_vars
  /\ <>[]PageAtRest

\* C30, reached: the hook is at rest after MaxCalls calls, the last of them
\* made while timeouts of the call before were pending.
C30_AtRestAfterOverlappingCalls ==
  /\ pageGhost.calls = MaxCalls
  /\ PageAtRest
  /\ pageTransition.nextTimeout < 3 * MaxCalls + 1

====
